---- MODULE Spec2Model ----
(***************************************************************************)
(* Bidding and settlement core of the auction engine.                      *)
(*                                                                         *)
(* Durable store (MongoDB): users (balance, gifts), auctions, the          *)
(* transaction ledger.  Fast store (Redis): per-user bid map, per-auction  *)
(* ranked set, idempotency slots, per-user lock.  Scheduler (BullMQ):      *)
(* start-round / end-round jobs.                                           *)
(*                                                                         *)
(* Every await of a handler that another handler can observe is a separate *)
(* action; a Lua script and a single MongoDB update are atomic.            *)
(***************************************************************************)
EXTENDS Integers, Sequences, FiniteSets, TLC

VARIABLES
    balance,     \* users.balance                      (MongoDB)
    gifts,       \* users.gifts[giftName].count        (MongoDB)
    auctions,    \* auction documents                  (MongoDB)
    txs,         \* transaction ledger, in odCreatedAt order (MongoDB)
    userBets,    \* user:{u}:bets  HASH auctionId -> amount  (Redis)
    zset,        \* auction:{a}:bets ZSET userId -> score    (Redis)
    idem,        \* idem:{key} STRING                        (Redis)
    lock,        \* lock:user:{u}                            (Redis)
    queue,       \* delayed / waiting jobs of the round queue (BullMQ)
    redelivered, \* how many times a job was handed out again after a stall
    worker,      \* the job a worker is processing, and its position
    req,         \* POST /bet requests in flight, and their position
    now,         \* wall clock, in ticks of TickMs milliseconds
    outcomes,    \* history: responses returned per idempotency key
    keyParams,   \* history: the request (user, auction, stars) a key belongs to
    reqCount,    \* history: number of requests sent per idempotency key
    applied,     \* history: number of script runs per key that wrote the cache
    moved,       \* history: gifts credited per auction and round
    firstBid,    \* history: when each ranked-set member was first admitted
    jobAt,          \* job.timestamp + job.opts.delay of the end-round jobs, ms
    roundEndTime,   \* auctions.roundEndTime, ms            (MongoDB)
    antiSnipeCount, \* antiSnipeCount Map, countKey -> extensions (process memory)
    extensions      \* history: the roundEndTime seen by each request whose
                    \* extendRound call returned true
VARIABLES
    staleReleases   \* history: releaseUserLock calls that found another
                    \* value than their lockId under the key

\* The deadline of a round and what extends it.  SpecSnipe tracks them; the
\* other specifications let an end-round job fire at any time, which covers
\* every deadline, and leave them at their initial values.
snipeVars == << jobAt, roundEndTime, antiSnipeCount, extensions >>

\* History of the user lock, which SpecLock tracks.
lockVars == << staleReleases >>

VARIABLES
    auctionSubscribers,     \* Map auctionId -> Set of callbacks  (process memory)
    activeAuctionUpdaters,  \* auctions with a running interval  (process memory)
    channels,               \* channels subClient is subscribed to (Redis)
    stopTimers,             \* pending setTimeout(stopAuctionUpdater)
    sub,                    \* subscribers, and their position in subscribeToAuction
    cached                  \* parity of the messages update() has published

\* services/pubsub, which SpecPubsub tracks.
pubVars == << auctionSubscribers, activeAuctionUpdaters, channels, stopTimers,
             sub, cached >>

VARIABLES
    call,        \* createAuction calls in flight, and their position
    made,        \* history: auctions created under an idempotency key that exist
    debited,     \* history: gifts debited under an idempotency key, net of refunds
    createKey,   \* idem:<key> as createAuction's helpers store it (Redis)
    usedIds      \* ids generateAuctionId has returned

\* services/auction createAuction step by step, which SpecCreate tracks.
createVars == << call, made, debited, createKey, usedIds >>

vars == << balance, gifts, auctions, txs, userBets, zset, idem, lock, queue,
           redelivered, worker, req, now, outcomes, keyParams, reqCount,
           applied, moved, firstBid, snipeVars, lockVars, pubVars, createVars >>

-----------------------------------------------------------------------------
(* Bounds of the model *)

Users      == {"u1", "u2"}          \* bidders
Author     == "au"                  \* the user who creates auctions
AuctionIds == {"a1", "a2"}
Keys       == {"k1", "k2", "k3", "k4"}    \* idempotency keys clients use
ReqSlots   == {1, 2}                \* concurrent POST /bet requests
Workers    == {"w1", "w2"}          \* concurrent job executions
Solo       == {"w1"}                \* the worker when jobs run one at a time

MaxAmount    == 4     \* stars of a bid are 1..MaxAmount
InitBalance  == 3     \* stars every bidder was minted
InitGifts    == 3     \* gifts the author was minted
MaxGiftCount == 2     \* giftCount of a created auction is 1..MaxGiftCount
MaxTicks     == 2     \* the clock stops advancing after MaxTicks ticks
TickMs       == 500   \* milliseconds per clock tick
MaxRedeliver == 1     \* stalled-job redeliveries per job
MaxReqPerKey == 2     \* requests a client sends with one idempotency key
SnipeStep    == 10    \* ticks per step of the clock of SpecSnipe (5 s)
SnipeTicks   == 20    \* the clock of SpecSnipe stops at 10 s
SnipeRoundMs == 5000  \* duration of the round of SpecSnipe
SnipeBids    == 6     \* requests the client of SpecSnipe sends
CreateStep   == 61    \* ticks per step of the clock of SpecCreate (30.5 s)
CreateTicks  == 61    \* the clock of SpecCreate stops at 30.5 s

Amounts == 1..MaxAmount

\* Lexicographic order of the user ids (Redis orders equal scores by member).
UserOrd == [u \in Users |-> IF u = "u1" THEN 1 ELSE 2]

\* Round plans a created auction may have: a sequence of rounds, each the
\* prize vector of the round.
RoundPlans == { << <<1>> >>, << <<1, 1>> >>, << <<1>>, <<1>> >> }

-----------------------------------------------------------------------------
(* Program constants *)

\* makeBet.lua: score = amount * MULTIPLIER + (MAX_TS - timestampSeconds).
\* The source has MULTIPLIER = 10^10 and MAX_TS = 10^10 - 1; both are scaled
\* by the same factor here so that scores fit TLC's 32-bit integers, keeping
\* MAX_TS = MULTIPLIER - 1.
MULTIPLIER == 1000
MAX_TS     == 999
MsPerSecond == 1000
SETTLING   == -999   \* currentRound while a round is being settled
MAX_ANTI_SNIPE_EXTENSIONS    == 5
ANTI_SNIPE_THRESHOLD_MS      == 10000
ANTI_SNIPE_THRESHOLD_SECONDS == 10
ANTI_SNIPE_EXTEND_SECONDS    == 5
\* userLock: the source has MAX_RETRIES = 500 attempts of acquireUserLock;
\* the ceiling is scaled down here so that the last attempt is reached.
MAX_RETRIES == 3
\* acquireIdempotencyKey: a key in status processing for longer is taken over.
PROCESSING_STALE_MS == 30000

-----------------------------------------------------------------------------
(* Values *)

Subscribers == {"s1", "s2"}         \* SSE connections
Callers    == {"c1", "c2"}          \* concurrent createAuction calls

None == "none"

\* auctionSubscribers has no entry for the auction.
NoSet == [exists |-> FALSE, members |-> {}]

NoSub == [pc |-> "idle", auctionId |-> ""]

NoCall == [pc |-> "idle", key |-> "", giftCount |-> 0, rounds |-> << >>,
           auctionId |-> "", giftsDeducted |-> FALSE, auctionCreated |-> FALSE,
           debit |-> 0, result |-> ""]

\* idem:<key> does not exist.
NoKey == [status |-> "absent", createdAt |-> 0, auctionId |-> ""]

NoAuction == [state |-> "none", currentRound |-> -1, authorId |-> "",
              giftCount |-> 0, rounds |-> << >>, winners |-> << >>]

NoJob == [pc |-> "idle", name |-> "", auctionId |-> "", roundIndex |-> 0,
          topBets |-> << >>, todo |-> {}, cur |-> 0, failed |-> FALSE,
          newWinners |-> << >>, push |-> FALSE]

NoReq == [pc |-> "idle", user |-> "", auctionId |-> "", stars |-> 0, key |-> "",
          round |-> 0, endTime |-> 0, attempt |-> 0, avail |-> 0,
          currentCount |-> 0, newDelay |-> 0, newEndTime |-> 0,
          res |-> [code |-> 0, amount |-> 0, previousBet |-> 0, diff |-> 0,
                   status |-> "", idempotent |-> FALSE]]

NoScore == -1

\* odId of a ledger record: the formats `<idempotencyKey>`,
\* `{a}:{u}:win:{r}:place{p}` and `{a}:{u}:unclaimed:{r}`.
BetId(k)             == [kind |-> "bet", key |-> k, a |-> "", u |-> "", r |-> 0, p |-> 0]
WinId(a, u, r, p)    == [kind |-> "win", key |-> "", a |-> a, u |-> u, r |-> r, p |-> p]
UnclaimedId(a, u, r) == [kind |-> "unclaimed", key |-> "", a |-> a, u |-> u, r |-> r, p |-> 0]

RECURSIVE SumSeq(_)
SumSeq(s) == IF s = << >> THEN 0 ELSE Head(s) + SumSeq(Tail(s))

RECURSIVE SumOver(_, _)
SumOver(S, f) == IF S = {} THEN 0
                 ELSE LET x == CHOOSE y \in S : TRUE
                      IN f[x] + SumOver(S \ {x}, f)

Range(s) == { s[i] : i \in DOMAIN s }

-----------------------------------------------------------------------------
(* Ledger queries (models/transaction) *)

IsActiveBet(t) == t.odStatus = "active" /\ t.odType \in {"bet", "bet_increase"}

\* Indices of the ACTIVE bet records of user u in auction a.
ActiveBetIdx(u, a) ==
    { i \in DOMAIN txs : /\ txs[i].odUserId = u
                         /\ txs[i].odAuctionId = a
                         /\ IsActiveBet(txs[i]) }

\* $sort by odCreatedAt, $last odAmount per auction.
LastActiveAmount(u, a) ==
    LET idx == ActiveBetIdx(u, a)
    IN IF idx = {} THEN 0
       ELSE txs[CHOOSE i \in idx : \A j \in idx : j <= i].odAmount

getCurrentBetFromDB(u, a) == LastActiveAmount(u, a)

\* getLockedBalanceFromDB that looks at one auction only.
lockedInOneAuction(u) == LastActiveAmount(u, "a1")

getLockedBalanceFromDB(u) ==
    SumOver(AuctionIds, [a \in AuctionIds |-> LastActiveAmount(u, a)])

HasTx(id) == \E i \in DOMAIN txs : txs[i].odId = id

\* findOneAndUpdate({odId}, {$setOnInsert: doc}, {upsert: true})
Upsert(ledger, doc) ==
    IF \E i \in DOMAIN ledger : ledger[i].odId = doc.odId
    THEN ledger
    ELSE Append(ledger, doc)

\* createBetTransaction as a plain insert, without the upsert by odId.
createBetInsert(ledger, k, u, a, r, amount, previousAmount, diff) ==
    Append(ledger,
           [odId |-> BetId(k),
            odType |-> IF previousAmount > 0 THEN "bet_increase" ELSE "bet",
            odStatus |-> "active", odUserId |-> u, odAuctionId |-> a,
            odRoundIndex |-> r, odAmount |-> amount,
            odPreviousAmount |-> previousAmount, odDiff |-> diff])

createBetTransaction(ledger, k, u, a, r, amount, previousAmount, diff) ==
    Upsert(ledger,
           [odId |-> BetId(k),
            odType |-> IF previousAmount > 0 THEN "bet_increase" ELSE "bet",
            odStatus |-> "active", odUserId |-> u, odAuctionId |-> a,
            odRoundIndex |-> r, odAmount |-> amount,
            odPreviousAmount |-> previousAmount, odDiff |-> diff])

createWinTransaction(ledger, u, a, r, place, betAmount, prizeCount) ==
    Upsert(ledger,
           [odId |-> WinId(a, u, r, place), odType |-> "win",
            odStatus |-> "won", odUserId |-> u, odAuctionId |-> a,
            odRoundIndex |-> r, odAmount |-> betAmount,
            odPreviousAmount |-> 0, odDiff |-> prizeCount])

\* isWinnerAlreadyProcessed that never finds the WIN record.
isWinnerNeverProcessed(ledger, u, a, r) == FALSE

isWinnerAlreadyProcessed(ledger, u, a, r) ==
    \E i \in DOMAIN ledger : /\ ledger[i].odUserId = u
                             /\ ledger[i].odAuctionId = a
                             /\ ledger[i].odRoundIndex = r
                             /\ ledger[i].odType = "win"

\* updateMany({odUserId, odAuctionId, odStatus: 'active'}, {$set: {odStatus}})
updateUserAuctionTransactionsStatus(ledger, u, a, newStatus) ==
    [i \in DOMAIN ledger |->
        IF /\ ledger[i].odUserId = u
           /\ ledger[i].odAuctionId = a
           /\ ledger[i].odStatus = "active"
        THEN [ledger[i] EXCEPT !.odStatus = newStatus]
        ELSE ledger[i]]

-----------------------------------------------------------------------------
(* User documents (models/user) *)

\* updateOne({id, balance: {$gte: amount}}, {$inc: {balance: -amount}})
deductBalance(bal, u, amount) ==
    IF bal[u] >= amount THEN [bal EXCEPT ![u] = @ - amount] ELSE bal

addGifts(g, u, count) == [g EXCEPT ![u] = @ + count]

-----------------------------------------------------------------------------
(* Fast store: ranked set and bid map (services/bets) *)

Members(a) == { u \in Users : zset[a][u] # NoScore }

\* scoreToAmount
scoreToAmount(score) == score \div MULTIPLIER

\* ZRANGE ... REV: higher score first; equal scores in reverse member order.
Before(a, u, v) ==
    \/ zset[a][u] > zset[a][v]
    \/ zset[a][u] = zset[a][v] /\ UserOrd[u] > UserOrd[v]

RankOf(a, u) == 1 + Cardinality({ v \in Members(a) : Before(a, v, u) })

Min(x, y) == IF x < y THEN x ELSE y

\* getTopBets without REV: the members from the lowest score up.
getBottomBets(a, limit) ==
    [i \in 1..Min(limit, Cardinality(Members(a))) |->
        LET u == CHOOSE v \in Members(a) :
                    RankOf(a, v) = Cardinality(Members(a)) + 1 - i
        IN [userId |-> u, amount |-> scoreToAmount(zset[a][u])]]

getTopBets(a, limit) ==
    [i \in 1..Min(limit, Cardinality(Members(a))) |->
        LET u == CHOOSE v \in Members(a) : RankOf(a, v) = i
        IN [userId |-> u, amount |-> scoreToAmount(zset[a][u])]]

getAuctionBets(a) == getTopBets(a, Cardinality(Members(a)))

-----------------------------------------------------------------------------
(* makeBet.lua *)

NoSlot == << >>

\* "code|amount|previousBet|diff|status"
EncodeResult(code, amount, previousBet, diff, status) ==
    << code, amount, previousBet, diff, status >>

\* string.gmatch(existing, "[^|]+") and tonumber of the first four parts
DecodeResult(slot) ==
    [code |-> slot[1], amount |-> slot[2], previousBet |-> slot[3],
     diff |-> slot[4], status |-> slot[5], idempotent |-> TRUE]

timestampSeconds(t) == (t * TickMs) \div MsPerSecond

\* Decide without the oldBet added back to the available balance.
DecideNoAddBack(oldBet, newAmount, availableBalance) ==
    IF oldBet = newAmount
    THEN [code |-> 0, amount |-> oldBet, previousBet |-> oldBet, diff |-> 0,
          status |-> "SAME", idempotent |-> FALSE]
    ELSE IF newAmount - oldBet < 0
    THEN [code |-> -2, amount |-> oldBet, previousBet |-> oldBet, diff |-> 0,
          status |-> "CANNOT_DECREASE", idempotent |-> FALSE]
    ELSE IF availableBalance < newAmount
    THEN [code |-> -1, amount |-> 0, previousBet |-> oldBet,
          diff |-> newAmount - oldBet,
          status |-> "INSUFFICIENT_BALANCE", idempotent |-> FALSE]
    ELSE [code |-> 1, amount |-> newAmount, previousBet |-> oldBet,
          diff |-> newAmount - oldBet, status |-> "OK", idempotent |-> FALSE]

\* Decide without the diff < 0 branch.
DecideAllowLower(oldBet, newAmount, availableBalance) ==
    IF oldBet = newAmount
    THEN [code |-> 0, amount |-> oldBet, previousBet |-> oldBet, diff |-> 0,
          status |-> "SAME", idempotent |-> FALSE]
    ELSE IF availableBalance + oldBet < newAmount
    THEN [code |-> -1, amount |-> 0, previousBet |-> oldBet,
          diff |-> newAmount - oldBet,
          status |-> "INSUFFICIENT_BALANCE", idempotent |-> FALSE]
    ELSE [code |-> 1, amount |-> newAmount, previousBet |-> oldBet,
          diff |-> newAmount - oldBet, status |-> "OK", idempotent |-> FALSE]

\* The decision of the script once no stored outcome was found.
Decide(oldBet, newAmount, availableBalance) ==
    IF oldBet = newAmount
    THEN [code |-> 0, amount |-> oldBet, previousBet |-> oldBet, diff |-> 0,
          status |-> "SAME", idempotent |-> FALSE]
    ELSE IF newAmount - oldBet < 0
    THEN [code |-> -2, amount |-> oldBet, previousBet |-> oldBet, diff |-> 0,
          status |-> "CANNOT_DECREASE", idempotent |-> FALSE]
    ELSE IF availableBalance + oldBet < newAmount
    THEN [code |-> -1, amount |-> 0, previousBet |-> oldBet,
          diff |-> newAmount - oldBet,
          status |-> "INSUFFICIENT_BALANCE", idempotent |-> FALSE]
    ELSE [code |-> 1, amount |-> newAmount, previousBet |-> oldBet,
          diff |-> newAmount - oldBet, status |-> "OK", idempotent |-> FALSE]

\* KeptTimestamp that always takes the time of the request.
FreshTimestamp(oldScore, tsSeconds) == tsSeconds

\* The timestamp part a raised bid keeps: MAX_TS - (oldScore % MULTIPLIER).
KeptTimestamp(oldScore, tsSeconds) ==
    IF oldScore # NoScore THEN MAX_TS - (oldScore % MULTIPLIER) ELSE tsSeconds

NewScore(oldScore, newAmount, tsSeconds) ==
    newAmount * MULTIPLIER + (MAX_TS - KeptTimestamp(oldScore, tsSeconds))

\* The script without the lookup of the idempotency slot.
makeBetNoReplay(u, a, newAmount, availableBalance, t, key) ==
    LET oldBet == userBets[u][a]
        r      == Decide(oldBet, newAmount, availableBalance)
        stored == IF key # "" /\ r.status \in {"SAME", "OK"}
                  THEN [idem EXCEPT ![key] =
                          EncodeResult(r.code, r.amount, r.previousBet, r.diff,
                                       r.status)]
                  ELSE idem
    IN IF r.status = "OK"
       THEN [res |-> r,
             bets |-> [userBets EXCEPT ![u][a] = newAmount],
             ranked |-> [zset EXCEPT ![a][u] =
                           NewScore(zset[a][u], newAmount, timestampSeconds(t))],
             slots |-> stored]
       ELSE [res |-> r, bets |-> userBets, ranked |-> zset, slots |-> stored]

\* The script with SETEX of the slot for every status.
makeBetStoreAll(u, a, newAmount, availableBalance, t, key) ==
    IF key # "" /\ idem[key] # NoSlot
    THEN [res |-> DecodeResult(idem[key]), bets |-> userBets, ranked |-> zset,
          slots |-> idem]
    ELSE
    LET oldBet == userBets[u][a]
        r      == Decide(oldBet, newAmount, availableBalance)
        stored == IF key # ""
                  THEN [idem EXCEPT ![key] =
                          EncodeResult(r.code, r.amount, r.previousBet, r.diff,
                                       r.status)]
                  ELSE idem
    IN IF r.status = "OK"
       THEN [res |-> r,
             bets |-> [userBets EXCEPT ![u][a] = newAmount],
             ranked |-> [zset EXCEPT ![a][u] =
                           NewScore(zset[a][u], newAmount, timestampSeconds(t))],
             slots |-> stored]
       ELSE [res |-> r, bets |-> userBets, ranked |-> zset, slots |-> stored]

\* The whole script: the result and the three keys after it ran.
makeBetScript(u, a, newAmount, availableBalance, t, key) ==
    IF key # "" /\ idem[key] # NoSlot
    THEN [res |-> DecodeResult(idem[key]), bets |-> userBets, ranked |-> zset,
          slots |-> idem]
    ELSE
    LET oldBet == userBets[u][a]
        r      == Decide(oldBet, newAmount, availableBalance)
        stored == IF key # "" /\ r.status \in {"SAME", "OK"}
                  THEN [idem EXCEPT ![key] =
                          EncodeResult(r.code, r.amount, r.previousBet, r.diff,
                                       r.status)]
                  ELSE idem
    IN IF r.status = "OK"
       THEN [res |-> r,
             bets |-> [userBets EXCEPT ![u][a] = newAmount],
             ranked |-> [zset EXCEPT ![a][u] =
                           NewScore(zset[a][u], newAmount, timestampSeconds(t))],
             slots |-> stored]
       ELSE [res |-> r, bets |-> userBets, ranked |-> zset, slots |-> stored]

\* services/bets makeBet: success = code >= 0
Success(res) == res.code >= 0

-----------------------------------------------------------------------------
(* deleteBet.lua, clearAuctionBets *)

deleteBetHash(bets, u, a) == [bets EXCEPT ![u][a] = 0]

\* deleteBet.lua without the ZREM.
deleteBetKeepMember(ranked, bets, u, a) == ranked

deleteBetZset(ranked, bets, u, a) ==
    IF bets[u][a] = 0 THEN ranked ELSE [ranked EXCEPT ![a][u] = NoScore]

clearHash(bets, a) ==
    [u \in Users |-> IF u \in Members(a) THEN [bets[u] EXCEPT ![a] = 0]
                     ELSE bets[u]]

clearZset(ranked, a) == [ranked EXCEPT ![a] = [u \in Users |-> NoScore]]

-----------------------------------------------------------------------------
(* services/auction *)

isAuctionActive(auc) == auc.state = "active" /\ auc.currentRound >= 0

-----------------------------------------------------------------------------
(* POST /api/bet *)

NoParams == [user |-> "", auctionId |-> "", stars |-> 0]

Outcome(res) == [status |-> res.status, bet |-> res.amount,
                 previousBet |-> res.previousBet, charged |-> res.diff]

Rejected(status) == [status |-> status, bet |-> 0, previousBet |-> 0,
                     charged |-> 0]

\* Validation, getAuction, isAuctionActive and the author check, all before
\* the user lock is taken.  The route accepts any well-formed key, whoever
\* used it before.  The clients send at most max requests with a key.
BidReceiveUpTo(i, u, a, stars, k, max) ==
    /\ req[i].pc = "idle"
    /\ reqCount[k] < max
    /\ keyParams' = [keyParams EXCEPT ![k] =
                        [user |-> u, auctionId |-> a, stars |-> stars]]
    /\ reqCount' = [reqCount EXCEPT ![k] = @ + 1]
    /\ IF auctions[a].state = "none"
       THEN /\ outcomes' = [outcomes EXCEPT ![k] = @ \cup {Rejected("AUCTION_NOT_FOUND")}]
            /\ req' = req
       ELSE IF ~isAuctionActive(auctions[a])
       THEN /\ outcomes' = [outcomes EXCEPT ![k] = @ \cup {Rejected("AUCTION_NOT_ACTIVE")}]
            /\ req' = req
       ELSE IF auctions[a].authorId = u
       THEN /\ outcomes' = [outcomes EXCEPT ![k] = @ \cup {Rejected("CANNOT_BET_OWN_AUCTION")}]
            /\ req' = req
       ELSE /\ outcomes' = outcomes
            /\ req' = [req EXCEPT ![i] =
                         [NoReq EXCEPT !.pc = "lock", !.user = u,
                                       !.auctionId = a, !.stars = stars,
                                       !.key = k,
                                       !.round = auctions[a].currentRound,
                                       !.endTime = roundEndTime[a]]]
    /\ UNCHANGED << balance, gifts, auctions, txs, userBets, zset, idem, lock,
                    queue, redelivered, worker, now, applied, moved,
                    firstBid, snipeVars, lockVars, pubVars, createVars >>

BidReceive(i, u, a, stars, k) == BidReceiveUpTo(i, u, a, stars, k, MaxReqPerKey)

\* A request of a client that repeats a key only with the parameters it
\* first sent under that key.
BidCheck(i, u, a, stars, k) ==
    /\ keyParams[k] \in {NoParams, [user |-> u, auctionId |-> a, stars |-> stars]}
    /\ BidReceive(i, u, a, stars, k)

\* A retry loop that makes one attempt more than MAX_RETRIES.
MayRetryOnceMore(attempt) == attempt <= MAX_RETRIES

\* The retry loop of acquireUserLock: for (attempt = 0; attempt <
\* MAX_RETRIES; attempt++).
MayRetry(attempt) == attempt < MAX_RETRIES

\* The lockId of the request in slot i; a job uses the name of its worker.
generateLockId(i) == ToString(i)

\* SET lockKey lockId NX PX ttl
acquireUserLock(lk, u, lockId) ==
    IF lk[u] = None THEN [lk EXCEPT ![u] = lockId] ELSE lk

\* A release that deletes the key whatever it holds.
releaseAnyLock(lk, u, lockId) == [lk EXCEPT ![u] = None]

\* The release script: DEL only if GET returns the caller's lockId.
releaseUserLock(lk, u, lockId) ==
    IF lk[u] = lockId THEN [lk EXCEPT ![u] = None] ELSE lk

\* History: a release by lockId that found another value under the key.
LogRelease(log, lk, u, lockId) ==
    IF lk[u] = lockId THEN log ELSE log \cup {[by |-> lockId, found |-> lk[u]]}

\* withUserLock acquires; getUser and getLockedBalanceFromDB under the lock.
BidLockRead(i) ==
    /\ req[i].pc = "lock"
    /\ MayRetry(req[i].attempt)
    /\ lock[req[i].user] = None
    /\ lock' = acquireUserLock(lock, req[i].user, generateLockId(i))
    /\ req' = [req EXCEPT ![i].pc = "script",
                          ![i].avail = balance[req[i].user]
                                       - getLockedBalanceFromDB(req[i].user)]
    /\ UNCHANGED << balance, gifts, auctions, txs, userBets, zset, idem, queue,
                    redelivered, worker, now, outcomes, keyParams, reqCount,
                    applied, moved, firstBid, snipeVars, lockVars,
                    pubVars, createVars >>

NoFirst == [n |-> 0, t |-> 0]

\* History of the ranked set: the position in the order of admissions and
\* the clock when user u entered the ranked set of auction a.
Admit(fb, a, u, t) ==
    [fb EXCEPT ![a][u] =
        [n |-> 1 + (CHOOSE m \in { fb[a][v].n : v \in Users } :
                        \A v \in Users : fb[a][v].n <= m),
         t |-> t]]

\* makeBet: the Lua script runs atomically on the fast store.
BidScript(i) ==
    /\ req[i].pc = "script"
    /\ LET r == req[i]
           out == makeBetScript(r.user, r.auctionId, r.stars, r.avail, now, r.key)
       IN /\ userBets' = out.bets
          /\ zset' = out.ranked
          /\ idem' = out.slots
          /\ req' = [req EXCEPT ![i].pc = "ledger", ![i].res = out.res]
          /\ applied' = [applied EXCEPT ![r.key] =
                           IF out.bets # userBets \/ out.ranked # zset
                           THEN @ + 1 ELSE @]
          /\ firstBid' = IF /\ zset[r.auctionId][r.user] = NoScore
                            /\ out.ranked[r.auctionId][r.user] # NoScore
                         THEN Admit(firstBid, r.auctionId, r.user, now)
                         ELSE firstBid
    /\ UNCHANGED << balance, gifts, auctions, txs, lock, queue, redelivered,
                    worker, now, outcomes, keyParams, reqCount, moved,
                    snipeVars, lockVars, pubVars, createVars >>

\* createBetTransaction on success, release of the lock, and the result
\* the response will carry; the request goes on as `after`.
BidLedgerThen(i, after) ==
    /\ req[i].pc = "ledger"
    /\ LET r == req[i]
       IN /\ txs' = IF Success(r.res)
                    THEN createBetTransaction(txs, r.key, r.user, r.auctionId,
                                              r.round, r.res.amount,
                                              r.res.previousBet, r.res.diff)
                    ELSE txs
          /\ lock' = releaseUserLock(lock, r.user, generateLockId(i))
          /\ staleReleases' = LogRelease(staleReleases, lock, r.user, generateLockId(i))
          /\ outcomes' = [outcomes EXCEPT ![r.key] = @ \cup {Outcome(r.res)}]
    /\ req' = [req EXCEPT ![i] = after]
    /\ UNCHANGED << balance, gifts, auctions, userBets, zset, idem, queue,
                    redelivered, worker, now, keyParams, reqCount, applied,
                    moved, firstBid, snipeVars, pubVars, createVars >>

\* The route up to its response where the deadline of the round is not
\* tracked: the anti-snipe check finds no roundEndTime.
BidLedger(i) == BidLedgerThen(i, NoReq)

\* The server stops between the script and the ledger write; the lock
\* expires by its TTL and the client gets no response.
BidCrash(i) ==
    /\ req[i].pc = "ledger"
    /\ lock' = releaseUserLock(lock, req[i].user, generateLockId(i))
    /\ req' = [req EXCEPT ![i] = NoReq]
    /\ UNCHANGED << balance, gifts, auctions, txs, userBets, zset, idem, queue,
                    redelivered, worker, now, outcomes, keyParams, reqCount,
                    applied, moved, firstBid, snipeVars, lockVars,
                    pubVars, createVars >>

\* acquireUserLock: SET NX finds the key taken; the loop sleeps and tries
\* again.
BidLockBusy(i) ==
    /\ req[i].pc = "lock"
    /\ MayRetry(req[i].attempt)
    /\ lock[req[i].user] # None
    /\ req' = [req EXCEPT ![i].attempt = @ + 1]
    /\ UNCHANGED << balance, gifts, auctions, txs, userBets, zset, idem, lock,
                    queue, redelivered, worker, now, outcomes, keyParams,
                    reqCount, applied, moved, firstBid, snipeVars, lockVars,
                    pubVars, createVars >>

\* The loop of acquireUserLock ends without the lock: withUserLock returns
\* LOCK_FAILED and the route answers 429 TOO_MANY_REQUESTS.
BidLockFailed(i) ==
    /\ req[i].pc = "lock"
    /\ ~MayRetry(req[i].attempt)
    /\ outcomes' = [outcomes EXCEPT ![req[i].key] =
                       @ \cup {Rejected("TOO_MANY_REQUESTS")}]
    /\ req' = [req EXCEPT ![i] = NoReq]
    /\ UNCHANGED << balance, gifts, auctions, txs, userBets, zset, idem, lock,
                    queue, redelivered, worker, now, keyParams, reqCount,
                    applied, moved, firstBid, snipeVars, lockVars,
                    pubVars, createVars >>

\* The body of withUserLock throws (a store call rejects) after the script:
\* the finally block releases the lock and the route answers 500.
BidBodyThrows(i) ==
    /\ req[i].pc = "ledger"
    /\ lock' = releaseUserLock(lock, req[i].user, generateLockId(i))
    /\ staleReleases' = LogRelease(staleReleases, lock, req[i].user,
                                generateLockId(i))
    /\ outcomes' = [outcomes EXCEPT ![req[i].key] =
                       @ \cup {Rejected("INTERNAL_ERROR")}]
    /\ req' = [req EXCEPT ![i] = NoReq]
    /\ UNCHANGED << balance, gifts, auctions, txs, userBets, zset, idem,
                    queue, redelivered, worker, now, keyParams, reqCount,
                    applied, moved, firstBid, snipeVars, pubVars, createVars >>

\* The key lock:user:{u} reaches its TTL (PX) while its holder is still in
\* the critical section.
LockExpire(u) ==
    /\ lock[u] # None
    /\ lock' = [lock EXCEPT ![u] = None]
    /\ UNCHANGED << balance, gifts, auctions, txs, userBets, zset, idem,
                    queue, redelivered, worker, req, now, outcomes, keyParams,
                    reqCount, applied, moved, firstBid, snipeVars, lockVars,
                    pubVars, createVars >>

Tick ==
    /\ now < MaxTicks
    /\ now' = now + 1
    /\ UNCHANGED << balance, gifts, auctions, txs, userBets, zset, idem, lock,
                    queue, redelivered, worker, req, outcomes, keyParams,
                    reqCount, applied, moved, firstBid, snipeVars, lockVars,
                    pubVars, createVars >>

-----------------------------------------------------------------------------
(* services/auction createAuction *)

StartJob(a)  == [name |-> "start-round", auctionId |-> a, roundIndex |-> 0]
EndJob(a, r) == [name |-> "end-round", auctionId |-> a, roundIndex |-> r]

\* deductGifts, AuctionModel.create, scheduleFirstRound.
CreateAuction(a, giftCount, plan) ==
    /\ auctions[a].state = "none"
    /\ giftCount > 0
    /\ Len(plan) > 0
    /\ gifts[Author] >= giftCount
    /\ gifts' = [gifts EXCEPT ![Author] = @ - giftCount]
    /\ auctions' = [auctions EXCEPT ![a] =
                      [state |-> "pending", currentRound |-> -1,
                       authorId |-> Author, giftCount |-> giftCount,
                       rounds |-> plan, winners |-> << >>]]
    /\ queue' = queue \cup {StartJob(a)}
    /\ UNCHANGED << balance, txs, userBets, zset, idem, lock, redelivered,
                    worker, req, now, outcomes, keyParams, reqCount, applied,
                    moved, firstBid, snipeVars, lockVars, pubVars, createVars >>

-----------------------------------------------------------------------------
(* services/rounds: the worker *)

\* 0-based round r of auction a
RoundOf(a, r) == auctions[a].rounds[r + 1]

\* isLastRound that holds for no round.
NeverLastRound(a, r) == FALSE

IsLastRound(a, r) == r >= Len(auctions[a].rounds) - 1

\* processRoundStart
StartRound(w, a) ==
    /\ worker[w].pc = "idle"
    /\ StartJob(a) \in queue
    /\ IF auctions[a].state = "pending"
       THEN /\ auctions' = [auctions EXCEPT ![a].state = "active",
                                            ![a].currentRound = 0]
            /\ queue' = (queue \ {StartJob(a)}) \cup {EndJob(a, 0)}
       ELSE /\ auctions' = auctions
            /\ queue' = queue \ {StartJob(a)}
    /\ UNCHANGED << balance, gifts, txs, userBets, zset, idem, lock,
                    redelivered, worker, req, now, outcomes, keyParams,
                    reqCount, applied, moved, firstBid, snipeVars, lockVars,
                    pubVars, createVars >>

\* processRoundEnd: the conditional move to the SETTLING sentinel.
EndBegin(w, a, r) ==
    /\ worker[w].pc = "idle"
    /\ EndJob(a, r) \in queue
    /\ queue' = queue \ {EndJob(a, r)}
    /\ IF /\ auctions[a].state = "active"
          /\ auctions[a].currentRound \in {r, SETTLING}
       THEN /\ auctions' = [auctions EXCEPT ![a].currentRound = SETTLING]
            /\ worker' = [worker EXCEPT ![w] =
                            [NoJob EXCEPT !.pc = "top", !.name = "end-round",
                                          !.auctionId = a, !.roundIndex = r]]
       ELSE /\ auctions' = auctions
            /\ worker' = worker
    /\ UNCHANGED << balance, gifts, txs, userBets, zset, idem, lock,
                    redelivered, req, now, outcomes, keyParams, reqCount,
                    applied, moved, firstBid, snipeVars, lockVars,
                    pubVars, createVars >>

\* getTopBets(auctionId, round.prizes.length)
EndTop(w) ==
    /\ worker[w].pc = "top"
    /\ LET j   == worker[w]
           top == getTopBets(j.auctionId, Len(RoundOf(j.auctionId, j.roundIndex)))
       IN worker' = [worker EXCEPT ![w].topBets = top,
                                   ![w].todo = DOMAIN top,
                                   ![w].pc = IF Len(top) = 0 THEN "nobets"
                                             ELSE "winners"]
    /\ UNCHANGED << balance, gifts, auctions, txs, userBets, zset, idem, lock,
                    queue, redelivered, req, now, outcomes, keyParams,
                    reqCount, applied, moved, firstBid, snipeVars, lockVars,
                    pubVars, createVars >>

Credit(m, a, r, field, n) == [m EXCEPT ![a][r][field] = @ + n]

\* No bids: the prizes of the round go back to the author.
EndNoBets(w) ==
    /\ worker[w].pc = "nobets"
    /\ LET j == worker[w]
           a == j.auctionId
           r == j.roundIndex
           totalPrize == SumSeq(RoundOf(a, r))
           done == isWinnerAlreadyProcessed(txs, auctions[a].authorId, a, r)
       IN /\ txs' = IF done THEN txs
                    ELSE createWinTransaction(txs, auctions[a].authorId, a, r,
                                              0, 0, totalPrize)
          /\ gifts' = IF done THEN gifts
                      ELSE addGifts(gifts, auctions[a].authorId, totalPrize)
          /\ moved' = IF done THEN moved
                      ELSE Credit(moved, a, r, "back", totalPrize)
          /\ worker' = [worker EXCEPT ![w].pc = "final",
                          ![w].newWinners =
                             << [roundIndex |-> r, place |-> 0,
                                 userId |-> auctions[a].authorId, stars |-> 0,
                                 prize |-> totalPrize] >>]
    /\ UNCHANGED << balance, auctions, userBets, zset, idem, lock, queue,
                    redelivered, req, now, outcomes, keyParams, reqCount,
                    applied, firstBid, snipeVars, lockVars,
                    pubVars, createVars >>

\* One winner, first part: withUserLock acquires the winner's lock, then
\* isWinnerAlreadyProcessed and createWinTransaction.  An already processed
\* winner is skipped and the lock released at once.
EndWinner(w, place) ==
    /\ worker[w].pc = "winners"
    /\ worker[w].cur = 0
    /\ place \in worker[w].todo
    /\ LET j == worker[w]
           a == j.auctionId
           r == j.roundIndex
           bet == j.topBets[place]
           u == bet.userId
           prizeAmount == RoundOf(a, r)[place]
           done == isWinnerAlreadyProcessed(txs, u, a, r)
       IN /\ lock[u] = None
          /\ txs' = IF done THEN txs
                    ELSE createWinTransaction(txs, u, a, r, place, bet.amount,
                                              prizeAmount)
          /\ lock' = IF done THEN lock ELSE acquireUserLock(lock, u, w)
          /\ worker' = IF done THEN [worker EXCEPT ![w].todo = @ \ {place}]
                       ELSE [worker EXCEPT ![w].cur = place]
    /\ UNCHANGED << balance, gifts, auctions, userBets, zset, idem, queue,
                    redelivered, req, now, outcomes, keyParams, reqCount,
                    applied, moved, firstBid, snipeVars, lockVars,
                    pubVars, createVars >>

\* One winner, second part, still under the lock: deductWinnerBalance, then
\* deleteBet, addGifts and updateUserAuctionTransactionsStatus; the lock is
\* released.
EndWinnerPay(w) ==
    /\ worker[w].pc = "winners"
    /\ worker[w].cur # 0
    /\ LET j == worker[w]
           a == j.auctionId
           r == j.roundIndex
           bet == j.topBets[j.cur]
           u == bet.userId
           prizeAmount == RoundOf(a, r)[j.cur]
       IN /\ balance' = deductBalance(balance, u, bet.amount)
          /\ userBets' = deleteBetHash(userBets, u, a)
          /\ zset' = deleteBetZset(zset, userBets, u, a)
          /\ gifts' = addGifts(gifts, u, prizeAmount)
          /\ txs' = updateUserAuctionTransactionsStatus(txs, u, a, "won")
          /\ moved' = Credit(moved, a, r, "won", prizeAmount)
          /\ firstBid' = IF userBets[u][a] = 0 THEN firstBid
                         ELSE [firstBid EXCEPT ![a][u] = NoFirst]
          /\ lock' = releaseUserLock(lock, u, w)
          /\ staleReleases' = LogRelease(staleReleases, lock, u, w)
          /\ worker' = [worker EXCEPT ![w].todo = @ \ {j.cur}, ![w].cur = 0]
    /\ UNCHANGED << auctions, idem, queue, redelivered, req, now, outcomes,
                    keyParams, reqCount, applied, snipeVars,
                    pubVars, createVars >>

\* The lock of the last winner still to process stays taken for all the
\* retries of acquireUserLock: withUserLock fails, the winner's callback
\* throws, and the catch around the distribution logs the error; what
\* follows is the final update, with no newWinners.
EndWinnerLockFail(w, place) ==
    /\ worker[w].pc = "winners"
    /\ worker[w].cur = 0
    /\ worker[w].todo = {place}
    /\ lock[worker[w].topBets[place].userId] # None
    /\ worker' = [worker EXCEPT ![w].pc = "final", ![w].failed = TRUE,
                                ![w].newWinners = << >>]
    /\ UNCHANGED << balance, gifts, auctions, txs, userBets, zset, idem, lock,
                    queue, redelivered, req, now, outcomes, keyParams,
                    reqCount, applied, moved, firstBid, snipeVars, lockVars,
                    pubVars, createVars >>

\* All winners are done: newWinners, and the unclaimed prizes go back to the
\* author.
EndUnclaimed(w) ==
    /\ worker[w].pc = "winners"
    /\ worker[w].cur = 0
    /\ worker[w].todo = {}
    /\ LET j == worker[w]
           a == j.auctionId
           r == j.roundIndex
           prizes == RoundOf(a, r)
           k == Len(j.topBets)
           unclaimedTotal == SumSeq(SubSeq(prizes, k + 1, Len(prizes)))
           refund == /\ k < Len(prizes)
                     /\ unclaimedTotal > 0
                     /\ ~HasTx(UnclaimedId(a, auctions[a].authorId, r))
       IN /\ txs' = IF refund
                    THEN Upsert(txs,
                           [odId |-> UnclaimedId(a, auctions[a].authorId, r),
                            odType |-> "refund", odStatus |-> "refunded",
                            odUserId |-> auctions[a].authorId,
                            odAuctionId |-> a, odRoundIndex |-> r,
                            odAmount |-> 0, odPreviousAmount |-> 0,
                            odDiff |-> unclaimedTotal])
                    ELSE txs
          /\ gifts' = IF refund
                      THEN addGifts(gifts, auctions[a].authorId, unclaimedTotal)
                      ELSE gifts
          /\ moved' = IF refund THEN Credit(moved, a, r, "back", unclaimedTotal)
                      ELSE moved
          /\ worker' = [worker EXCEPT ![w].pc = "final",
                          ![w].newWinners =
                             [p \in 1..k |->
                                [roundIndex |-> r, place |-> p,
                                 userId |-> j.topBets[p].userId,
                                 stars |-> j.topBets[p].amount,
                                 prize |-> prizes[p]]]]
    /\ UNCHANGED << balance, auctions, userBets, zset, idem, lock, queue,
                    redelivered, req, now, outcomes, keyParams, reqCount,
                    applied, firstBid, snipeVars, lockVars,
                    pubVars, createVars >>

\* The winners the auction document already holds for round r.
ExistingWinnersForRound(a, r) ==
    { i \in DOMAIN auctions[a].winners : auctions[a].winners[i].roundIndex = r }

\* The final update of the auction document, and scheduleNextRound.
EndFinal(w) ==
    /\ worker[w].pc = "final"
    /\ LET j == worker[w]
           a == j.auctionId
           r == j.roundIndex
           last == IsLastRound(a, r)
           winnersToAdd == IF ExistingWinnersForRound(a, r) = {}
                           THEN j.newWinners ELSE << >>
       IN /\ auctions' = [auctions EXCEPT
                            ![a].winners = @ \o winnersToAdd,
                            ![a].currentRound = IF last THEN r ELSE r + 1,
                            ![a].state = IF last THEN "finished" ELSE "active"]
          /\ IF last
             THEN /\ queue' = queue
                  /\ worker' = [worker EXCEPT ![w].pc = "losers"]
             ELSE /\ queue' = queue \cup {EndJob(a, r + 1)}
                  /\ worker' = [worker EXCEPT ![w] = NoJob]
    /\ UNCHANGED << balance, gifts, txs, userBets, zset, idem, lock,
                    redelivered, req, now, outcomes, keyParams, reqCount,
                    applied, moved, firstBid, snipeVars, lockVars,
                    pubVars, createVars >>

RECURSIVE MarkLost(_, _, _)
MarkLost(ledger, S, a) ==
    IF S = {} THEN ledger
    ELSE LET u == CHOOSE v \in S : TRUE
         IN MarkLost(updateUserAuctionTransactionsStatus(ledger, u, a, "lost"),
                     S \ {u}, a)

\* Last round: getAuctionBets, and the losers' records become LOST.
EndLosers(w) ==
    /\ worker[w].pc = "losers"
    /\ txs' = MarkLost(txs, Members(worker[w].auctionId), worker[w].auctionId)
    /\ worker' = [worker EXCEPT ![w].pc = "clear"]
    /\ UNCHANGED << balance, gifts, auctions, userBets, zset, idem, lock, queue,
                    redelivered, req, now, outcomes, keyParams, reqCount,
                    applied, moved, firstBid, snipeVars, lockVars,
                    pubVars, createVars >>

\* clearAuctionBets
EndClear(w) ==
    /\ worker[w].pc = "clear"
    /\ userBets' = clearHash(userBets, worker[w].auctionId)
    /\ zset' = clearZset(zset, worker[w].auctionId)
    /\ firstBid' = [firstBid EXCEPT ![worker[w].auctionId] =
                       [u \in Users |-> NoFirst]]
    /\ worker' = [worker EXCEPT ![w] = NoJob]
    /\ UNCHANGED << balance, gifts, auctions, txs, idem, lock, queue,
                    redelivered, req, now, outcomes, keyParams, reqCount,
                    applied, moved, snipeVars, lockVars, pubVars, createVars >>

\* processRoundStart, first await: the conditional update PENDING -> ACTIVE
\* with currentRound = roundIndex.  A fire that finds the auction not
\* PENDING returns.
StartUpdate(w, a) ==
    /\ worker[w].pc = "idle"
    /\ StartJob(a) \in queue
    /\ queue' = queue \ {StartJob(a)}
    /\ IF auctions[a].state = "pending"
       THEN /\ auctions' = [auctions EXCEPT ![a].state = "active",
                                            ![a].currentRound = 0]
            /\ worker' = [worker EXCEPT ![w] =
                            [NoJob EXCEPT !.pc = "schedule",
                                          !.name = "start-round",
                                          !.auctionId = a, !.roundIndex = 0]]
       ELSE /\ auctions' = auctions
            /\ worker' = worker
    /\ UNCHANGED << balance, gifts, txs, userBets, zset, idem, lock,
                    redelivered, req, now, outcomes, keyParams, reqCount,
                    applied, moved, firstBid, snipeVars, lockVars,
                    pubVars, createVars >>

\* processRoundStart, the rest: roundEndTime and scheduleNextRound.
StartSchedule(w) ==
    /\ worker[w].pc = "schedule"
    /\ queue' = queue \cup {EndJob(worker[w].auctionId, 0)}
    /\ worker' = [worker EXCEPT ![w] = NoJob]
    /\ UNCHANGED << balance, gifts, auctions, txs, userBets, zset, idem, lock,
                    redelivered, req, now, outcomes, keyParams, reqCount,
                    applied, moved, firstBid, snipeVars, lockVars,
                    pubVars, createVars >>

\* processRoundEnd, final update, first await: findOne and
\* existingWinnersForRound.
EndFinalRead(w) ==
    /\ worker[w].pc = "final"
    /\ worker' = [worker EXCEPT ![w].pc = "update",
                     ![w].push = ExistingWinnersForRound(worker[w].auctionId,
                                                         worker[w].roundIndex) = {}]
    /\ UNCHANGED << balance, gifts, auctions, txs, userBets, zset, idem, lock,
                    queue, redelivered, req, now, outcomes, keyParams,
                    reqCount, applied, moved, firstBid, snipeVars, lockVars,
                    pubVars, createVars >>

\* processRoundEnd, final update, second await: updateOne with the $push
\* decided on what findOne returned, and scheduleNextRound.
EndFinalWrite(w) ==
    /\ worker[w].pc = "update"
    /\ LET j == worker[w]
           a == j.auctionId
           r == j.roundIndex
           last == IsLastRound(a, r)
           winnersToAdd == IF j.push THEN j.newWinners ELSE << >>
       IN /\ auctions' = [auctions EXCEPT
                            ![a].winners = @ \o winnersToAdd,
                            ![a].currentRound = IF last THEN r ELSE r + 1,
                            ![a].state = IF last THEN "finished" ELSE "active"]
          /\ IF last
             THEN /\ queue' = queue
                  /\ worker' = [worker EXCEPT ![w].pc = "losers"]
             ELSE /\ queue' = queue \cup {EndJob(a, r + 1)}
                  /\ worker' = [worker EXCEPT ![w] = NoJob]
    /\ UNCHANGED << balance, gifts, txs, userBets, zset, idem, lock,
                    redelivered, req, now, outcomes, keyParams, reqCount,
                    applied, moved, firstBid, snipeVars, lockVars,
                    pubVars, createVars >>

\* The job worker w is processing, as the queue holds it.
JobOf(w) == [name |-> worker[w].name, auctionId |-> worker[w].auctionId,
             roundIndex |-> worker[w].roundIndex]

\* The worker process stops in the middle of a job; the queue finds the job
\* stalled and hands it out again.  A user lock the job held expires by its
\* TTL.
JobCrash(w) ==
    /\ worker[w].pc # "idle"
    /\ redelivered < MaxRedeliver
    /\ redelivered' = redelivered + 1
    /\ queue' = queue \cup {JobOf(w)}
    /\ lock' = [u \in Users |-> IF lock[u] = w THEN None ELSE lock[u]]
    /\ worker' = [worker EXCEPT ![w] = NoJob]
    /\ UNCHANGED << balance, gifts, auctions, txs, userBets, zset, idem, req,
                    now, outcomes, keyParams, reqCount, applied, moved,
                    firstBid, snipeVars, lockVars, pubVars, createVars >>

\* The queue takes the job of worker w for stalled, because its lock was
\* not renewed in time, and hands it out again while w goes on with it.
JobStall(w) ==
    /\ worker[w].pc # "idle"
    /\ redelivered < MaxRedeliver
    /\ JobOf(w) \notin queue
    /\ redelivered' = redelivered + 1
    /\ queue' = queue \cup {JobOf(w)}
    /\ UNCHANGED << balance, gifts, auctions, txs, userBets, zset, idem, lock,
                    worker, req, now, outcomes, keyParams, reqCount, applied,
                    moved, firstBid, snipeVars, lockVars, pubVars, createVars >>

-----------------------------------------------------------------------------
(* Anti-snipe: POST /api/bet after the lock, and extendRound *)

NowMs == now * TickMs

\* The route goes on to the anti-snipe check after a successful result.
BidRespond(i) ==
    BidLedgerThen(i, IF Success(req[i].res)
                     THEN [req[i] EXCEPT !.pc = "antisnipe"] ELSE NoReq)

\* if (auction.roundEndTime && auction.currentRound >= 0), and
\* 0 < remainingSeconds <= ANTI_SNIPE_THRESHOLD_SECONDS, on the auction the
\* route read before the lock.
InSnipeWindow(r) ==
    /\ r.endTime # 0
    /\ r.round >= 0
    /\ r.endTime - NowMs > 0
    /\ r.endTime - NowMs <= ANTI_SNIPE_THRESHOLD_SECONDS * MsPerSecond

AntiSnipeWindow(i) ==
    /\ req[i].pc = "antisnipe"
    /\ req' = [req EXCEPT ![i] = IF InSnipeWindow(req[i])
                                 THEN [req[i] EXCEPT !.pc = "top"] ELSE NoReq]
    /\ UNCHANGED << balance, gifts, auctions, txs, userBets, zset, idem, lock,
                    queue, redelivered, worker, now, outcomes, keyParams,
                    reqCount, applied, moved, firstBid, snipeVars, lockVars,
                    pubVars, createVars >>

\* isInWinningPosition: the user is among the top winnersCount bets.
IsInWinningPosition(u, a, r) ==
    LET topBets == getTopBets(a, Len(RoundOf(a, r)))
    IN \E p \in DOMAIN topBets : topBets[p].userId = u

\* await getTopBets; if the user is in a winning position, extendRound is
\* called and reads antiSnipeCount before its first await.
AntiSnipeTop(i) ==
    /\ req[i].pc = "top"
    /\ LET r == req[i]
           currentCount == antiSnipeCount[r.auctionId][r.round]
       IN req' = [req EXCEPT ![i] =
                     IF /\ IsInWinningPosition(r.user, r.auctionId, r.round)
                        /\ currentCount < MAX_ANTI_SNIPE_EXTENSIONS
                     THEN [r EXCEPT !.pc = "getJob", !.currentCount = currentCount]
                     ELSE NoReq]
    /\ UNCHANGED << balance, gifts, auctions, txs, userBets, zset, idem, lock,
                    queue, redelivered, worker, now, outcomes, keyParams,
                    reqCount, applied, moved, firstBid, snipeVars, lockVars,
                    pubVars, createVars >>

\* The end-round job of round r of auction a is being processed.
JobActive(a, r) ==
    \E w \in Workers : /\ worker[w].pc # "idle"
                       /\ worker[w].name = "end-round"
                       /\ worker[w].auctionId = a
                       /\ worker[w].roundIndex = r

\* roundQueue.getJob(jobId) finds the job, delayed or active.
JobExists(a, r) == EndJob(a, r) \in queue \/ JobActive(a, r)

\* await roundQueue.getJob; remaining = job.timestamp + job.opts.delay - now;
\* return false unless 0 < remaining <= ANTI_SNIPE_THRESHOLD_MS.
ExtendGetJob(i) ==
    /\ req[i].pc = "getJob"
    /\ LET r == req[i]
           remaining == jobAt[r.auctionId][r.round] - NowMs
           newDelay == remaining + ANTI_SNIPE_EXTEND_SECONDS * MsPerSecond
       IN req' = [req EXCEPT ![i] =
                     IF /\ JobExists(r.auctionId, r.round)
                        /\ remaining > 0
                        /\ remaining <= ANTI_SNIPE_THRESHOLD_MS
                     THEN [r EXCEPT !.pc = "remove", !.newDelay = newDelay,
                                    !.newEndTime = NowMs + newDelay]
                     ELSE NoReq]
    /\ UNCHANGED << balance, gifts, auctions, txs, userBets, zset, idem, lock,
                    queue, redelivered, worker, now, outcomes, keyParams,
                    reqCount, applied, moved, firstBid, snipeVars, lockVars,
                    pubVars, createVars >>

\* await job.remove(): a job that is being processed is locked and the call
\* throws (extendRound returns false); a job that is gone already is no
\* error.
ExtendRemove(i) ==
    /\ req[i].pc = "remove"
    /\ LET r == req[i]
       IN IF JobActive(r.auctionId, r.round)
          THEN /\ req' = [req EXCEPT ![i] = NoReq]
               /\ queue' = queue
          ELSE /\ req' = [req EXCEPT ![i].pc = "add"]
               /\ queue' = queue \ {EndJob(r.auctionId, r.round)}
    /\ UNCHANGED << balance, gifts, auctions, txs, userBets, zset, idem, lock,
                    redelivered, worker, now, outcomes, keyParams, reqCount,
                    applied, moved, firstBid, snipeVars, lockVars,
                    pubVars, createVars >>

\* await roundQueue.add with delay newDelay and the same jobId; the queue
\* ignores an add whose jobId exists.
ExtendAdd(i) ==
    /\ req[i].pc = "add"
    /\ LET r == req[i]
       IN IF JobExists(r.auctionId, r.round)
          THEN UNCHANGED << queue, jobAt >>
          ELSE /\ queue' = queue \cup {EndJob(r.auctionId, r.round)}
               /\ jobAt' = [jobAt EXCEPT ![r.auctionId][r.round] =
                               NowMs + r.newDelay]
    /\ req' = [req EXCEPT ![i].pc = "update"]
    /\ UNCHANGED << balance, gifts, auctions, txs, userBets, zset, idem, lock,
                    redelivered, worker, now, outcomes, keyParams, reqCount,
                    applied, moved, firstBid, roundEndTime, antiSnipeCount,
                    extensions, lockVars, pubVars, createVars >>

\* roundQueue.add rejects (connection lost) and the catch returns false, or
\* the server stops before the add: the removed job is not put back.
ExtendAddFail(i) ==
    /\ req[i].pc = "add"
    /\ req' = [req EXCEPT ![i] = NoReq]
    /\ UNCHANGED << balance, gifts, auctions, txs, userBets, zset, idem, lock,
                    queue, redelivered, worker, now, outcomes, keyParams,
                    reqCount, applied, moved, firstBid, snipeVars, lockVars,
                    pubVars, createVars >>

\* await AuctionModel.updateOne roundEndTime, then
\* antiSnipeCount.set(countKey, currentCount + 1) and return true.
ExtendUpdate(i) ==
    /\ req[i].pc = "update"
    /\ LET r == req[i]
       IN /\ roundEndTime' = [roundEndTime EXCEPT ![r.auctionId] = r.newEndTime]
          /\ antiSnipeCount' = [antiSnipeCount EXCEPT ![r.auctionId][r.round] =
                                   r.currentCount + 1]
          /\ extensions' = [extensions EXCEPT ![r.auctionId][r.round] =
                               Append(@, r.endTime)]
    /\ req' = [req EXCEPT ![i] = NoReq]
    /\ UNCHANGED << balance, gifts, auctions, txs, userBets, zset, idem, lock,
                    queue, redelivered, worker, now, outcomes, keyParams,
                    reqCount, applied, moved, firstBid, jobAt, lockVars,
                    pubVars, createVars >>

\* The delayed end-round job becomes due and a worker takes it.
EndBeginDue(w, a, r) ==
    /\ NowMs >= jobAt[a][r]
    /\ EndBegin(w, a, r)

\* The clock of SpecSnipe advances in steps of SnipeStep ticks.
SnipeTick ==
    /\ now + SnipeStep <= SnipeTicks
    /\ now' = now + SnipeStep
    /\ UNCHANGED << balance, gifts, auctions, txs, userBets, zset, idem, lock,
                    queue, redelivered, worker, req, outcomes, keyParams,
                    reqCount, applied, moved, firstBid, snipeVars, lockVars,
                    pubVars, createVars >>

-----------------------------------------------------------------------------
(* services/pubsub: per-auction subscriptions and the producer *)

\* startAuctionUpdater: returns at once if the auction has an interval;
\* else runs update() and sets the interval.
startAuctionUpdater(active, a) == active \cup {a}

\* stopAuctionUpdater: clearInterval and delete, if there is an interval.
stopAuctionUpdater(active, a) == active \ {a}

\* An unsubscribe function that takes every subscriber for the last.
IsAlwaysLast(members, s) == TRUE

\* The unsubscribe function finds its set empty after deleting its callback.
IsLastSubscriber(members, s) == members \ {s} = {}

\* subscribeToAuction up to its first await.  Without a set for the auction:
\* create the set and send SUBSCRIBE; the call waits for the reply.  With a
\* set: add the callback; the call waits for the cached message.
SubscribeBegin(s, a) ==
    /\ sub[s].pc = "idle"
    /\ IF ~auctionSubscribers[a].exists
       THEN /\ auctionSubscribers' = [auctionSubscribers EXCEPT ![a] =
                                         [exists |-> TRUE, members |-> {}]]
            /\ channels' = channels \cup {a}
            /\ sub' = [sub EXCEPT ![s] = [pc |-> "subscribing", auctionId |-> a]]
       ELSE /\ auctionSubscribers' = [auctionSubscribers EXCEPT
                                         ![a].members = @ \cup {s}]
            /\ channels' = channels
            /\ sub' = [sub EXCEPT ![s] = [pc |-> "cache", auctionId |-> a]]
    /\ UNCHANGED << activeAuctionUpdaters, stopTimers, cached >>
    /\ UNCHANGED << balance, gifts, auctions, txs, userBets, zset, idem, lock,
                    queue, redelivered, worker, req, now, outcomes, keyParams,
                    reqCount, applied, moved, firstBid, snipeVars, lockVars,
                    createVars >>

\* subClient.subscribe has resolved: startAuctionUpdater, then
\* auctionSubscribers.get(auctionId)!.add(callback), which throws a TypeError
\* if the map has no entry for the auction: the call rejects.
SubscribeResume(s) ==
    /\ sub[s].pc = "subscribing"
    /\ LET a == sub[s].auctionId
       IN /\ activeAuctionUpdaters' = startAuctionUpdater(activeAuctionUpdaters, a)
          /\ IF auctionSubscribers[a].exists
             THEN /\ auctionSubscribers' = [auctionSubscribers EXCEPT
                                               ![a].members = @ \cup {s}]
                  /\ sub' = [sub EXCEPT ![s].pc = "cache"]
             ELSE /\ auctionSubscribers' = auctionSubscribers
                  /\ sub' = [sub EXCEPT ![s].pc = "rejected"]
    /\ UNCHANGED << channels, stopTimers, cached >>
    /\ UNCHANGED << balance, gifts, auctions, txs, userBets, zset, idem, lock,
                    queue, redelivered, worker, req, now, outcomes, keyParams,
                    reqCount, applied, moved, firstBid, snipeVars, lockVars,
                    createVars >>

\* pubClient.get has resolved: the call returns the unsubscribe function.
SubscribeReturn(s) ==
    /\ sub[s].pc = "cache"
    /\ sub' = [sub EXCEPT ![s].pc = "subscribed"]
    /\ UNCHANGED << auctionSubscribers, activeAuctionUpdaters, channels,
                    stopTimers, cached >>
    /\ UNCHANGED << balance, gifts, auctions, txs, userBets, zset, idem, lock,
                    queue, redelivered, worker, req, now, outcomes, keyParams,
                    reqCount, applied, moved, firstBid, snipeVars, lockVars,
                    createVars >>

\* The caller of a rejected subscribeToAuction gives up its connection.
SubscribeRejected(s) ==
    /\ sub[s].pc = "rejected"
    /\ sub' = [sub EXCEPT ![s] = NoSub]
    /\ UNCHANGED << auctionSubscribers, activeAuctionUpdaters, channels,
                    stopTimers, cached >>
    /\ UNCHANGED << balance, gifts, auctions, txs, userBets, zset, idem, lock,
                    queue, redelivered, worker, req, now, outcomes, keyParams,
                    reqCount, applied, moved, firstBid, snipeVars, lockVars,
                    createVars >>

\* The unsubscribe function subscribeToAuction returned, called when the
\* client disconnects.
Unsubscribe(s) ==
    /\ sub[s].pc = "subscribed"
    /\ LET a == sub[s].auctionId
           subscribers == auctionSubscribers[a]
       IN IF ~subscribers.exists
          THEN UNCHANGED << auctionSubscribers, channels, activeAuctionUpdaters >>
          ELSE IF IsLastSubscriber(subscribers.members, s)
          THEN /\ auctionSubscribers' = [auctionSubscribers EXCEPT ![a] = NoSet]
               /\ channels' = channels \ {a}
               /\ activeAuctionUpdaters' = stopAuctionUpdater(activeAuctionUpdaters, a)
          ELSE /\ auctionSubscribers' = [auctionSubscribers EXCEPT
                                            ![a].members = @ \ {s}]
               /\ UNCHANGED << channels, activeAuctionUpdaters >>
    /\ sub' = [sub EXCEPT ![s] = NoSub]
    /\ UNCHANGED << stopTimers, cached >>
    /\ UNCHANGED << balance, gifts, auctions, txs, userBets, zset, idem, lock,
                    queue, redelivered, worker, req, now, outcomes, keyParams,
                    reqCount, applied, moved, firstBid, snipeVars, lockVars,
                    createVars >>

\* notifyAuctionUpdate, which POST /bet calls after a successful bid.
NotifyAuctionUpdate(a) ==
    /\ auctions[a].state = "active"
    /\ activeAuctionUpdaters' = startAuctionUpdater(activeAuctionUpdaters, a)
    /\ UNCHANGED << auctionSubscribers, channels, stopTimers, sub, cached >>
    /\ UNCHANGED << balance, gifts, auctions, txs, userBets, zset, idem, lock,
                    queue, redelivered, worker, req, now, outcomes, keyParams,
                    reqCount, applied, moved, firstBid, snipeVars, lockVars,
                    createVars >>

\* update(), at the start of the producer and on every interval: a missing
\* auction stops the producer; otherwise a new message is cached and
\* published, and a finished auction sets the timer that stops the producer.
UpdaterTick(a) ==
    /\ a \in activeAuctionUpdaters
    /\ IF auctions[a].state = "none"
       THEN /\ activeAuctionUpdaters' = stopAuctionUpdater(activeAuctionUpdaters, a)
            /\ UNCHANGED << stopTimers, cached >>
       ELSE /\ cached' = [cached EXCEPT ![a] = 1 - @]
            /\ activeAuctionUpdaters' = activeAuctionUpdaters
            /\ stopTimers' = IF auctions[a].state = "finished"
                              THEN stopTimers \cup {a}
                              ELSE stopTimers
    /\ UNCHANGED << auctionSubscribers, channels, sub >>
    /\ UNCHANGED << balance, gifts, auctions, txs, userBets, zset, idem, lock,
                    queue, redelivered, worker, req, now, outcomes, keyParams,
                    reqCount, applied, moved, firstBid, snipeVars, lockVars,
                    createVars >>

\* setTimeout(() => stopAuctionUpdater(auctionId), 5000) fires.
UpdaterStop(a) ==
    /\ a \in stopTimers
    /\ stopTimers' = stopTimers \ {a}
    /\ activeAuctionUpdaters' = stopAuctionUpdater(activeAuctionUpdaters, a)
    /\ UNCHANGED << auctionSubscribers, channels, sub, cached >>
    /\ UNCHANGED << balance, gifts, auctions, txs, userBets, zset, idem, lock,
                    queue, redelivered, worker, req, now, outcomes, keyParams,
                    reqCount, applied, moved, firstBid, snipeVars, lockVars,
                    createVars >>

-----------------------------------------------------------------------------
(* services/auction createAuction, await by await *)

\* What createAuction leaves alone.
CaFrame ==
    UNCHANGED << balance, txs, userBets, zset, idem, lock, redelivered,
                 worker, req, outcomes, keyParams, reqCount, applied, moved,
                 firstBid, snipeVars, lockVars, pubVars >>

\* The call ends: it returns the result or throws.
CaEnd(c, result) == [call[c] EXCEPT !.pc = "done", !.result = result]

\* The validation before the idempotency key is looked at.
ValidInput(in) == in.giftCount > 0 /\ Len(in.rounds) > 0

\* The key is in status processing and older than PROCESSING_STALE_MS.
IsStale(slot) ==
    /\ slot.status = "processing"
    /\ NowMs - slot.createdAt > PROCESSING_STALE_MS

\* A catch block that returns the gifts only if the auction was created.
RefundsIfCreated(c) == call[c].auctionCreated

\* The catch block returns the gifts if they were deducted.
RefundsGifts(c) == call[c].giftsDeducted

\* createAuction up to the reply of SET NX in acquireIdempotencyKey.
CaBegin(c, in) ==
    /\ call[c].pc = "idle"
    /\ IF ~ValidInput(in)
       THEN /\ call' = [call EXCEPT ![c] =
                           [NoCall EXCEPT !.pc = "done", !.key = in.key,
                                          !.result = "INVALID_INPUT"]]
            /\ createKey' = createKey
       ELSE IF createKey[in.key].status = "absent"
       THEN /\ createKey' = [createKey EXCEPT ![in.key] =
                                [status |-> "processing", createdAt |-> NowMs,
                                 auctionId |-> ""]]
            /\ call' = [call EXCEPT ![c] =
                           [NoCall EXCEPT !.pc = "deduct", !.key = in.key,
                                          !.giftCount = in.giftCount,
                                          !.rounds = in.rounds]]
       ELSE /\ call' = [call EXCEPT ![c] =
                           [NoCall EXCEPT !.pc = "get", !.key = in.key,
                                          !.giftCount = in.giftCount,
                                          !.rounds = in.rounds]]
            /\ createKey' = createKey
    /\ UNCHANGED << gifts, auctions, queue, now, made, debited, usedIds >>
    /\ CaFrame

\* acquireIdempotencyKey: the reply of GET, and what createAuction does with
\* a key that is not acquired.
CaGet(c) ==
    /\ call[c].pc = "get"
    /\ LET slot == createKey[call[c].key]
       IN call' = [call EXCEPT ![c] =
                     IF slot.status = "absent" THEN [@ EXCEPT !.pc = "deduct"]
                     ELSE IF IsStale(slot) THEN [@ EXCEPT !.pc = "del"]
                     ELSE IF slot.status = "completed"
                     THEN [@ EXCEPT !.pc = "done", !.result = "REPLAY",
                                    !.auctionId = slot.auctionId]
                     ELSE [@ EXCEPT !.pc = "done",
                                    !.result = "IDEMPOTENCY_CONFLICT"]]
    /\ UNCHANGED << gifts, auctions, queue, now, made, debited, createKey,
                    usedIds >>
    /\ CaFrame

\* acquireIdempotencyKey: DEL of the stale key; the key is acquired.
CaDel(c) ==
    /\ call[c].pc = "del"
    /\ createKey' = [createKey EXCEPT ![call[c].key] = NoKey]
    /\ call' = [call EXCEPT ![c].pc = "deduct"]
    /\ UNCHANGED << gifts, auctions, queue, now, made, debited, usedIds >>
    /\ CaFrame

\* deductGifts: one conditional update.
CaDeduct(c) ==
    /\ call[c].pc = "deduct"
    /\ IF gifts[Author] >= call[c].giftCount
       THEN /\ gifts' = [gifts EXCEPT ![Author] = @ - call[c].giftCount]
            /\ debited' = [debited EXCEPT ![call[c].key] = @ + call[c].giftCount]
            /\ call' = [call EXCEPT ![c].pc = "create",
                                    ![c].giftsDeducted = TRUE,
                                    ![c].debit = call[c].giftCount]
       ELSE /\ call' = [call EXCEPT ![c].pc = "insufficient"]
            /\ UNCHANGED << gifts, debited >>
    /\ UNCHANGED << auctions, queue, now, made, createKey, usedIds >>
    /\ CaFrame

\* INSUFFICIENT_GIFTS: the key is released and the error returned.
CaInsufficient(c) ==
    /\ call[c].pc = "insufficient"
    /\ createKey' = [createKey EXCEPT ![call[c].key] = NoKey]
    /\ call' = [call EXCEPT ![c] = CaEnd(c, "INSUFFICIENT_GIFTS")]
    /\ UNCHANGED << gifts, auctions, queue, now, made, debited, usedIds >>
    /\ CaFrame

\* generateAuctionId and AuctionModel.create.
CaCreate(c) ==
    /\ call[c].pc = "create"
    /\ \E a \in AuctionIds \ usedIds :
          /\ usedIds' = usedIds \cup {a}
          /\ auctions' = [auctions EXCEPT ![a] =
                            [state |-> "pending", currentRound |-> -1,
                             authorId |-> Author,
                             giftCount |-> call[c].giftCount,
                             rounds |-> call[c].rounds, winners |-> << >>]]
          /\ made' = [made EXCEPT ![call[c].key] = @ \cup {a}]
          /\ call' = [call EXCEPT ![c].pc = "schedule", ![c].auctionId = a,
                                  ![c].auctionCreated = TRUE]
    /\ UNCHANGED << gifts, queue, now, debited, createKey >>
    /\ CaFrame

\* scheduleFirstRound.
CaSchedule(c) ==
    /\ call[c].pc = "schedule"
    /\ queue' = queue \cup {StartJob(call[c].auctionId)}
    /\ call' = [call EXCEPT ![c].pc = "complete"]
    /\ UNCHANGED << gifts, auctions, now, made, debited, createKey, usedIds >>
    /\ CaFrame

\* completeIdempotencyKey, and the return of the auction.
CaComplete(c) ==
    /\ call[c].pc = "complete"
    /\ createKey' = [createKey EXCEPT ![call[c].key] =
                        [status |-> "completed", createdAt |-> NowMs,
                         auctionId |-> call[c].auctionId]]
    /\ call' = [call EXCEPT ![c] = CaEnd(c, "OK")]
    /\ UNCHANGED << gifts, auctions, queue, now, made, debited, usedIds >>
    /\ CaFrame

\* The await the call is waiting for rejects: AuctionModel.create,
\* scheduleFirstRound or completeIdempotencyKey.  The catch block begins.
CaFail(c) ==
    /\ call[c].pc \in {"create", "schedule", "complete"}
    /\ call' = [call EXCEPT ![c].pc = "undoAuction"]
    /\ UNCHANGED << gifts, auctions, queue, now, made, debited, createKey,
                    usedIds >>
    /\ CaFrame

\* catch, 1: deleteOne of the auction if it was created.
CaUndoAuction(c) ==
    /\ call[c].pc = "undoAuction"
    /\ IF call[c].auctionCreated
       THEN /\ auctions' = [auctions EXCEPT ![call[c].auctionId] = NoAuction]
            /\ made' = [made EXCEPT ![call[c].key] = @ \ {call[c].auctionId}]
       ELSE UNCHANGED << auctions, made >>
    /\ call' = [call EXCEPT ![c].pc = "undoGifts"]
    /\ UNCHANGED << gifts, queue, now, debited, createKey, usedIds >>
    /\ CaFrame

\* catch, 2: addGifts if the gifts were deducted.
CaUndoGifts(c) ==
    /\ call[c].pc = "undoGifts"
    /\ IF RefundsGifts(c)
       THEN /\ gifts' = [gifts EXCEPT ![Author] = @ + call[c].giftCount]
            /\ debited' = [debited EXCEPT ![call[c].key] = @ - call[c].giftCount]
            /\ call' = [call EXCEPT ![c].pc = "undoKey",
                                    ![c].debit = @ - call[c].giftCount]
       ELSE /\ call' = [call EXCEPT ![c].pc = "undoKey"]
            /\ UNCHANGED << gifts, debited >>
    /\ UNCHANGED << auctions, queue, now, made, createKey, usedIds >>
    /\ CaFrame

\* catch, 3: releaseIdempotencyKey, and the error is thrown again.
CaUndoKey(c) ==
    /\ call[c].pc = "undoKey"
    /\ createKey' = [createKey EXCEPT ![call[c].key] = NoKey]
    /\ call' = [call EXCEPT ![c] = CaEnd(c, "THROWN")]
    /\ UNCHANGED << gifts, auctions, queue, now, made, debited, usedIds >>
    /\ CaFrame

\* The caller has its answer.
CaReturn(c) ==
    /\ call[c].pc = "done"
    /\ call' = [call EXCEPT ![c] = NoCall]
    /\ UNCHANGED << gifts, auctions, queue, now, made, debited, createKey,
                    usedIds >>
    /\ CaFrame

\* Time passes in SpecCreate.
CreateClock ==
    /\ now + CreateStep <= CreateTicks
    /\ now' = now + CreateStep
    /\ UNCHANGED << gifts, auctions, queue, createVars >>
    /\ CaFrame

-----------------------------------------------------------------------------
(* Specifications *)

MaxRounds == 2
RoundIdx  == 0..(MaxRounds - 1)

Init ==
    /\ balance = [u \in Users |-> InitBalance]
    /\ gifts = [u \in Users \cup {Author} |-> IF u = Author THEN InitGifts ELSE 0]
    /\ auctions = [a \in AuctionIds |-> NoAuction]
    /\ txs = << >>
    /\ userBets = [u \in Users |-> [a \in AuctionIds |-> 0]]
    /\ zset = [a \in AuctionIds |-> [u \in Users |-> NoScore]]
    /\ idem = [k \in Keys |-> NoSlot]
    /\ lock = [u \in Users |-> None]
    /\ queue = {}
    /\ redelivered = 0
    /\ worker = [w \in Workers |-> NoJob]
    /\ req = [i \in ReqSlots |-> NoReq]
    /\ now = 0
    /\ outcomes = [k \in Keys |-> {}]
    /\ jobAt = [a \in AuctionIds |-> [r \in RoundIdx |-> 0]]
    /\ roundEndTime = [a \in AuctionIds |-> 0]
    /\ antiSnipeCount = [a \in AuctionIds |-> [r \in RoundIdx |-> 0]]
    /\ extensions = [a \in AuctionIds |-> [r \in RoundIdx |-> << >>]]
    /\ keyParams = [k \in Keys |-> NoParams]
    /\ reqCount = [k \in Keys |-> 0]
    /\ applied = [k \in Keys |-> 0]
    /\ moved = [a \in AuctionIds |-> [r \in RoundIdx |-> [won |-> 0, back |-> 0]]]
    /\ firstBid = [a \in AuctionIds |-> [u \in Users |-> NoFirst]]
    /\ staleReleases = {}
    /\ auctionSubscribers = [a \in AuctionIds |-> NoSet]
    /\ activeAuctionUpdaters = {}
    /\ channels = {}
    /\ stopTimers = {}
    /\ sub = [s \in Subscribers |-> NoSub]
    /\ cached = [a \in AuctionIds |-> 0]
    /\ call = [c \in Callers |-> NoCall]
    /\ made = [k \in Keys |-> {}]
    /\ debited = [k \in Keys |-> 0]
    /\ createKey = [k \in Keys |-> NoKey]
    /\ usedIds = {}

\* The requests the clients send in Spec: u1 bids 2, u2 bids 1 and 4.
ClientRequests ==
    { [key |-> "k1", user |-> "u1", stars |-> 2],
      [key |-> "k3", user |-> "u2", stars |-> 1],
      [key |-> "k4", user |-> "u2", stars |-> 4] }

\* One auction with any round plan, two bidders who send each of their
\* requests once, one request in flight at a time, and settlement with a
\* worker that can stall.
Next ==
    \/ \E g \in 1..MaxGiftCount, plan \in RoundPlans : CreateAuction("a1", g, plan)
    \/ \E w \in Solo : StartRound(w, "a1")
    \/ \E w \in Solo, r \in RoundIdx : EndBegin(w, "a1", r)
    \/ \E w \in Solo : EndTop(w)
    \/ \E w \in Solo : EndNoBets(w)
    \/ \E w \in Solo, p \in 1..2 : EndWinner(w, p)
    \/ \E w \in Solo : EndWinnerPay(w)
    \/ \E w \in Solo, p \in 1..2 : EndWinnerLockFail(w, p)
    \/ \E w \in Solo : EndUnclaimed(w)
    \/ \E w \in Solo : EndFinal(w)
    \/ \E w \in Solo : EndLosers(w)
    \/ \E w \in Solo : EndClear(w)
    \/ \E w \in Solo : JobCrash(w)
    \/ \E q \in ClientRequests :
          reqCount[q.key] = 0 /\ BidCheck(1, q.user, "a1", q.stars, q.key)
    \/ BidLockRead(1)
    \/ BidScript(1)
    \/ BidLedger(1)
    \/ BidCrash(1)

Spec == Init /\ [][Next]_vars

\* Bidding only: one auction that stays in its first round, any bid of any
\* user under the keys BidKeys, requests in flight concurrently.
BidKeys == {"k1", "k2"}

NextBid ==
    \/ CreateAuction("a1", 1, << <<1>> >>)
    \/ \E w \in Solo : StartRound(w, "a1")
    \/ \E i \in ReqSlots, u \in Users, s \in Amounts, k \in BidKeys :
          BidCheck(i, u, "a1", s, k)
    \/ \E i \in ReqSlots : BidLockRead(i)
    \/ \E i \in ReqSlots : BidScript(i)
    \/ \E i \in ReqSlots : BidLedger(i)
    \/ \E i \in ReqSlots : BidCrash(i)

SpecBid == Init /\ [][NextBid]_vars

\* Two auctions in their first round and one bidder who bids in both, with
\* requests in flight concurrently.
NextDouble ==
    \/ \E a \in AuctionIds : CreateAuction(a, 1, << <<1>> >>)
    \/ \E w \in Solo, a \in AuctionIds : StartRound(w, a)
    \/ \E i \in ReqSlots, a \in AuctionIds, s \in Amounts, k \in BidKeys :
          BidCheck(i, "u1", a, s, k)
    \/ \E i \in ReqSlots : BidLockRead(i)
    \/ \E i \in ReqSlots : BidScript(i)
    \/ \E i \in ReqSlots : BidLedger(i)
    \/ \E i \in ReqSlots : BidCrash(i)

SpecDouble == Init /\ [][NextDouble]_vars

\* The requests the clients send in SpecRank: both bidders bid 1 and raise
\* to 2.
RankRequests ==
    { [key |-> "k1", user |-> "u1", stars |-> 1],
      [key |-> "k2", user |-> "u2", stars |-> 1],
      [key |-> "k3", user |-> "u1", stars |-> 2],
      [key |-> "k4", user |-> "u2", stars |-> 2] }

\* Bidding while the clock advances: one auction that stays in its first
\* round, each request sent once.
NextRank ==
    \/ CreateAuction("a1", 1, << <<1>> >>)
    \/ \E w \in Solo : StartRound(w, "a1")
    \/ \E i \in ReqSlots, q \in RankRequests :
          reqCount[q.key] = 0 /\ BidCheck(i, q.user, "a1", q.stars, q.key)
    \/ \E i \in ReqSlots : BidLockRead(i)
    \/ \E i \in ReqSlots : BidScript(i)
    \/ \E i \in ReqSlots : BidLedger(i)
    \/ Tick

SpecRank == Init /\ [][NextRank]_vars

\* The requests the clients send in SpecRetry: u1 bids 2 and 1.
RetryRequests ==
    { [key |-> "k1", user |-> "u1", stars |-> 2],
      [key |-> "k2", user |-> "u1", stars |-> 1] }

\* Retries: one auction of two rounds, one bidder who sends each request up
\* to MaxReqPerKey times, sequentially or concurrently, a server that can
\* stop between the script and the ledger write, and settlement.
NextRetry ==
    \/ CreateAuction("a1", 2, << <<1>>, <<1>> >>)
    \/ \E w \in Solo : StartRound(w, "a1")
    \/ \E w \in Solo, r \in RoundIdx : EndBegin(w, "a1", r)
    \/ \E w \in Solo : EndTop(w)
    \/ \E w \in Solo : EndNoBets(w)
    \/ \E w \in Solo : EndWinner(w, 1)
    \/ \E w \in Solo : EndWinnerPay(w)
    \/ \E w \in Solo : EndUnclaimed(w)
    \/ \E w \in Solo : EndFinal(w)
    \/ \E w \in Solo : EndLosers(w)
    \/ \E w \in Solo : EndClear(w)
    \/ \E i \in ReqSlots, q \in RetryRequests :
          BidCheck(i, q.user, "a1", q.stars, q.key)
    \/ \E i \in ReqSlots : BidLockRead(i)
    \/ \E i \in ReqSlots : BidScript(i)
    \/ \E i \in ReqSlots : BidLedger(i)
    \/ \E i \in ReqSlots : BidCrash(i)

SpecRetry == Init /\ [][NextRetry]_vars

\* Keys shared between clients: one auction in its first round, two bidders
\* who send any amount under the one key SharedKey, and the author, who bids
\* in the author's own auction under OwnKey.
SharedKey == "k1"
OwnKey == "k3"

NextKeys ==
    \/ CreateAuction("a1", 1, << <<1>> >>)
    \/ \E w \in Solo : StartRound(w, "a1")
    \/ \E i \in ReqSlots, u \in Users, s \in Amounts :
          BidReceive(i, u, "a1", s, SharedKey)
    \/ \E i \in ReqSlots : BidReceive(i, Author, "a1", 1, OwnKey)
    \/ \E i \in ReqSlots : BidLockRead(i)
    \/ \E i \in ReqSlots : BidScript(i)
    \/ \E i \in ReqSlots : BidLedger(i)

SpecKeys == Init /\ [][NextKeys]_vars

\* The request the client sends in SpecJobs.
JobsRequest == [key |-> "k1", user |-> "u1", stars |-> 2]

\* Jobs delivered more than once: one auction, one bid, two concurrent job
\* executions whose awaits interleave, a worker that stops in the middle of a
\* job, and a job the queue takes for stalled while it is still running.
NextJobs ==
    \/ \E plan \in RoundPlans : CreateAuction("a1", SumSeq(plan[1]), plan)
    \/ \E w \in Workers : StartUpdate(w, "a1")
    \/ \E w \in Workers : StartSchedule(w)
    \/ \E w \in Workers, r \in RoundIdx : EndBegin(w, "a1", r)
    \/ \E w \in Workers : EndTop(w)
    \/ \E w \in Workers : EndNoBets(w)
    \/ \E w \in Workers : EndWinner(w, 1)
    \/ \E w \in Workers : EndWinnerPay(w)
    \/ \E w \in Workers : EndUnclaimed(w)
    \/ \E w \in Workers : EndFinalRead(w)
    \/ \E w \in Workers : EndFinalWrite(w)
    \/ \E w \in Workers : EndLosers(w)
    \/ \E w \in Workers : EndClear(w)
    \/ \E w \in Workers : JobCrash(w)
    \/ \E w \in Workers : JobStall(w)
    \/ reqCount[JobsRequest.key] = 0
          /\ BidCheck(1, JobsRequest.user, "a1", JobsRequest.stars, JobsRequest.key)
    \/ BidLockRead(1)
    \/ BidScript(1)
    \/ BidLedger(1)

SpecJobs == Init /\ [][NextJobs]_vars

\* One step of worker w on a job: taking a queued job, or the next await of
\* the job it is processing.
WorkerStep(w) ==
    \/ StartUpdate(w, "a1")
    \/ StartSchedule(w)
    \/ \E r \in RoundIdx : EndBegin(w, "a1", r)
    \/ EndTop(w)
    \/ EndNoBets(w)
    \/ EndWinner(w, 1)
    \/ EndWinnerPay(w)
    \/ EndUnclaimed(w)
    \/ EndFinalRead(w)
    \/ EndFinalWrite(w)
    \/ EndLosers(w)
    \/ EndClear(w)

\* The jobs of SpecJobs under fair scheduling: a worker that can take a job
\* or continue one eventually does.  Stops and stalls are not forced.
FairJobs == SpecJobs /\ \A w \in Workers : WF_vars(WorkerStep(w))

\* The auction of SpecSnipe: one round with one prize.
SnipeAuction == [state |-> "active", currentRound |-> 0, authorId |-> Author,
                 giftCount |-> 1, rounds |-> << <<1>> >>, winners |-> << >>]

\* The state after createAuction and the start-round job of a1, at time 0:
\* the round is ACTIVE, roundEndTime is the duration of the round and the
\* end-round job is delayed by it.
InitSnipe ==
    /\ balance = [u \in Users |-> InitBalance]
    /\ gifts = [u \in Users \cup {Author} |-> IF u = Author THEN InitGifts - 1 ELSE 0]
    /\ auctions = [a \in AuctionIds |-> IF a = "a1" THEN SnipeAuction ELSE NoAuction]
    /\ txs = << >>
    /\ userBets = [u \in Users |-> [a \in AuctionIds |-> 0]]
    /\ zset = [a \in AuctionIds |-> [u \in Users |-> NoScore]]
    /\ idem = [k \in Keys |-> NoSlot]
    /\ lock = [u \in Users |-> None]
    /\ queue = {EndJob("a1", 0)}
    /\ redelivered = 0
    /\ worker = [w \in Workers |-> NoJob]
    /\ req = [i \in ReqSlots |-> NoReq]
    /\ now = 0
    /\ outcomes = [k \in Keys |-> {}]
    /\ jobAt = [a \in AuctionIds |-> [r \in RoundIdx |->
                  IF a = "a1" /\ r = 0 THEN SnipeRoundMs ELSE 0]]
    /\ roundEndTime = [a \in AuctionIds |-> IF a = "a1" THEN SnipeRoundMs ELSE 0]
    /\ antiSnipeCount = [a \in AuctionIds |-> [r \in RoundIdx |-> 0]]
    /\ extensions = [a \in AuctionIds |-> [r \in RoundIdx |-> << >>]]
    /\ keyParams = [k \in Keys |-> NoParams]
    /\ reqCount = [k \in Keys |-> 0]
    /\ applied = [k \in Keys |-> 0]
    /\ moved = [a \in AuctionIds |-> [r \in RoundIdx |-> [won |-> 0, back |-> 0]]]
    /\ firstBid = [a \in AuctionIds |-> [u \in Users |-> NoFirst]]
    /\ staleReleases = {}
    /\ auctionSubscribers = [a \in AuctionIds |-> NoSet]
    /\ activeAuctionUpdaters = {}
    /\ channels = {}
    /\ stopTimers = {}
    /\ sub = [s \in Subscribers |-> NoSub]
    /\ cached = [a \in AuctionIds |-> 0]
    /\ call = [c \in Callers |-> NoCall]
    /\ made = [k \in Keys |-> {}]
    /\ debited = [k \in Keys |-> 0]
    /\ createKey = [k \in Keys |-> NoKey]
    /\ usedIds = {}

\* One round with a deadline: a bid of u1 and its replays near the
\* deadline, two requests in flight, extendRound with its awaits
\* interleaved, and the end-round job once it is due.
NextSnipe ==
    \/ \E i \in ReqSlots : BidReceiveUpTo(i, "u1", "a1", 1, "k1", SnipeBids)
    \/ \E i \in ReqSlots : BidLockRead(i)
    \/ \E i \in ReqSlots : BidScript(i)
    \/ \E i \in ReqSlots : BidRespond(i)
    \/ \E i \in ReqSlots : AntiSnipeWindow(i)
    \/ \E i \in ReqSlots : AntiSnipeTop(i)
    \/ \E i \in ReqSlots : ExtendGetJob(i)
    \/ \E i \in ReqSlots : ExtendRemove(i)
    \/ \E i \in ReqSlots : ExtendAdd(i)
    \/ \E i \in ReqSlots : ExtendAddFail(i)
    \/ \E i \in ReqSlots : ExtendUpdate(i)
    \/ \E w \in Solo : EndBeginDue(w, "a1", 0)
    \/ \E w \in Solo : EndTop(w)
    \/ \E w \in Solo : EndNoBets(w)
    \/ \E w \in Solo : EndWinner(w, 1)
    \/ \E w \in Solo : EndWinnerPay(w)
    \/ \E w \in Solo : EndFinal(w)
    \/ \E w \in Solo : EndLosers(w)
    \/ \E w \in Solo : EndClear(w)
    \/ SnipeTick

SpecSnipe == InitSnipe /\ [][NextSnipe]_vars

\* The requests the client sends in SpecLock: u1 bids 1, then raises to 2.
LockRequests ==
    { [key |-> "k1", user |-> "u1", stars |-> 1],
      [key |-> "k2", user |-> "u1", stars |-> 2] }

\* The user lock: two requests of one user in flight in a running round, a
\* lock that is busy for every attempt of a request, a lock that reaches its
\* TTL under its holder, and a body that throws.
NextLock ==
    \/ \E i \in ReqSlots, c \in LockRequests : BidCheck(i, c.user, "a1", c.stars, c.key)
    \/ \E i \in ReqSlots : BidLockRead(i)
    \/ \E i \in ReqSlots : BidLockBusy(i)
    \/ \E i \in ReqSlots : BidLockFailed(i)
    \/ \E i \in ReqSlots : BidScript(i)
    \/ \E i \in ReqSlots : BidLedger(i)
    \/ \E i \in ReqSlots : BidBodyThrows(i)
    \/ \E u \in Users : LockExpire(u)

SpecLock == InitSnipe /\ [][NextLock]_vars

\* Two SSE connections that come and go on auction a1 and on an auction id
\* that does not exist, the bid route's notification, the producer, and the
\* jobs of a1 from its creation to its settlement, run by one worker that may
\* stop in the middle of a job.
NextPubsub ==
    \/ \E plan \in RoundPlans : CreateAuction("a1", SumSeq(plan[1]), plan)
    \/ \E w \in Solo : StartUpdate(w, "a1")
    \/ \E w \in Solo : StartSchedule(w)
    \/ \E w \in Solo : JobCrash(w)
    \/ \E s \in Subscribers, a \in AuctionIds : SubscribeBegin(s, a)
    \/ \E s \in Subscribers : SubscribeResume(s)
    \/ \E s \in Subscribers : SubscribeReturn(s)
    \/ \E s \in Subscribers : SubscribeRejected(s)
    \/ \E s \in Subscribers : Unsubscribe(s)
    \/ \E a \in AuctionIds : NotifyAuctionUpdate(a)
    \/ \E a \in AuctionIds : UpdaterTick(a)
    \/ \E a \in AuctionIds : UpdaterStop(a)
    \/ \E w \in Solo, r \in RoundIdx : EndBegin(w, "a1", r)
    \/ \E w \in Solo : EndTop(w)
    \/ \E w \in Solo : EndNoBets(w)
    \/ \E w \in Solo : EndFinal(w)
    \/ \E w \in Solo : EndLosers(w)
    \/ \E w \in Solo : EndClear(w)

SpecPubsub == Init /\ [][NextPubsub]_vars

\* The producer, the pending awaits of subscribeToAuction and the worker make
\* progress.  Nothing forces a client to come or go or a bid to arrive.
FairPubsub ==
    /\ SpecPubsub
    /\ \A w \in Solo : WF_vars(WorkerStep(w))
    /\ \A a \in AuctionIds : WF_vars(UpdaterTick(a)) /\ WF_vars(UpdaterStop(a))
    /\ \A s \in Subscribers : WF_vars(SubscribeResume(s)) /\ WF_vars(SubscribeReturn(s))

\* The requests the clients of SpecCreate send: each key stands for one
\* request and its retries.  The author has InitGifts gifts.
CreateInputs ==
    { [key |-> "k1", giftCount |-> 1, rounds |-> << <<1>> >>],
      [key |-> "k2", giftCount |-> 3, rounds |-> << <<1, 1, 1>> >>],
      [key |-> "k3", giftCount |-> 0, rounds |-> << <<1>> >>] }

\* Concurrent createAuction calls, each of which may fail at any await after
\* the debit, while time passes.
NextCreate ==
    \/ \E c \in Callers, in \in CreateInputs : CaBegin(c, in)
    \/ \E c \in Callers : CaGet(c)
    \/ \E c \in Callers : CaDel(c)
    \/ \E c \in Callers : CaDeduct(c)
    \/ \E c \in Callers : CaInsufficient(c)
    \/ \E c \in Callers : CaCreate(c)
    \/ \E c \in Callers : CaSchedule(c)
    \/ \E c \in Callers : CaComplete(c)
    \/ \E c \in Callers : CaFail(c)
    \/ \E c \in Callers : CaUndoAuction(c)
    \/ \E c \in Callers : CaUndoGifts(c)
    \/ \E c \in Callers : CaUndoKey(c)
    \/ \E c \in Callers : CaReturn(c)
    \/ CreateClock

SpecCreate == Init /\ [][NextCreate]_vars

-----------------------------------------------------------------------------
(* Properties *)

\* The step of request i that runs the script.
ScriptStep(i) == req[i].pc = "script" /\ req'[i].pc = "ledger"

ScriptStatuses == {"OK", "SAME", "CANNOT_DECREASE", "INSUFFICIENT_BALANCE"}

\* The responses of key k that the script produced.
ScriptOutcomes(k) == { o \in outcomes[k] : o.status \in ScriptStatuses }

\* C1: with no stored outcome for the key, the script returns SAME (diff 0)
\* when the amount equals the current bid, CANNOT_DECREASE when it is lower,
\* INSUFFICIENT_BALANCE when availableBalance + currentBid < amount, and
\* otherwise OK with previousBet = currentBid and diff = amount - currentBid;
\* only OK changes the bid-map entry (set to amount) and the ranked-set score.
C1_DecisionTable ==
    [][\A i \in ReqSlots :
         (ScriptStep(i) /\ idem[req[i].key] = NoSlot) =>
            LET r   == req[i]
                cur == userBets[r.user][r.auctionId]
                res == req'[i].res
            IN /\ r.stars = cur =>
                     res.status = "SAME" /\ res.diff = 0
               /\ r.stars < cur => res.status = "CANNOT_DECREASE"
               /\ (r.stars > cur /\ r.avail + cur < r.stars) =>
                     res.status = "INSUFFICIENT_BALANCE"
               /\ (r.stars > cur /\ r.avail + cur >= r.stars) =>
                     /\ res.status = "OK"
                     /\ res.previousBet = cur
                     /\ res.diff = r.stars - cur
               /\ IF res.status = "OK"
                  THEN /\ userBets' = [userBets EXCEPT ![r.user][r.auctionId] = r.stars]
                       /\ scoreToAmount(zset'[r.auctionId][r.user]) = r.stars
                       /\ \A a \in AuctionIds, u \in Users :
                            <<a, u>> # <<r.auctionId, r.user>> =>
                               zset'[a][u] = zset[a][u]
                  ELSE userBets' = userBets /\ zset' = zset]_vars

\* A raise was admitted by the script: OK with a previous bid.
C1_Witness ==
    \E i \in ReqSlots : /\ req[i].pc = "ledger"
                        /\ ~req[i].res.idempotent
                        /\ req[i].res.status = "OK"
                        /\ req[i].res.previousBet > 0
                        /\ req[i].res.diff > 0

\* C2 as stated: every repetition of a request under one key yields the same
\* outcome (status, bet, previousBet, charged).
C2_IdenticalOutcomes ==
    \A k \in Keys : Cardinality(ScriptOutcomes(k)) <= 1

\* C2, amended: once a request was admitted under a key (OK or SAME stored),
\* every run of the script under that key returns the stored outcome and
\* leaves bid map, ranked set and slot alone; the script writes bid map and
\* ranked set at most once per key, at most one OK/SAME outcome is ever
\* returned for a key, and the ledger holds at most one record of the key.
C2_AdmittedReplay ==
    [][/\ \A i \in ReqSlots :
            (ScriptStep(i) /\ idem[req[i].key] # NoSlot) =>
               /\ Outcome(req'[i].res) = Outcome(DecodeResult(idem[req[i].key]))
               /\ userBets' = userBets
               /\ zset' = zset
               /\ idem' = idem
       /\ \A k \in Keys :
            /\ applied'[k] <= 1
            /\ Cardinality({ o \in outcomes'[k] : o.status \in {"OK", "SAME"} }) <= 1
            /\ Cardinality({ n \in DOMAIN txs' : txs'[n].odId = BetId(k) }) <= 1
            /\ idem[k] # NoSlot => idem'[k] = idem[k]]_vars

\* A repetition of an admitted request got the stored OK back, with the
\* ledger record of the key already written.
C2_Witness ==
    \E i \in ReqSlots : /\ req[i].pc = "ledger"
                        /\ req[i].res.idempotent
                        /\ req[i].res.status = "OK"
                        /\ reqCount[req[i].key] = 2
                        /\ HasTx(BetId(req[i].key))

\* Both requests of the double-spend case were sent once and answered by the
\* script, and nothing is in flight: k1 bids B in a1, k2 bids B in a2.
DoubleDone ==
    /\ keyParams["k1"] = [user |-> "u1", auctionId |-> "a1", stars |-> InitBalance]
    /\ keyParams["k2"] = [user |-> "u1", auctionId |-> "a2", stars |-> InitBalance]
    /\ reqCount["k1"] = 1 /\ reqCount["k2"] = 1
    /\ ScriptOutcomes("k1") # {} /\ ScriptOutcomes("k2") # {}
    /\ \A i \in ReqSlots : req[i].pc = "idle"

C4_BalanceClosure ==
    \A u \in Users :
       LET locked    == getLockedBalanceFromDB(u)
           available == balance[u] - locked
       IN /\ balance[u] = available + locked
          /\ available >= 0
          /\ 0 <= locked /\ locked <= balance[u]

\* The ledger records of the admitted bids of user u in auction a, in the
\* order of the ledger.
BetRecords(u, a) ==
    { n \in DOMAIN txs : /\ txs[n].odUserId = u
                         /\ txs[n].odAuctionId = a
                         /\ txs[n].odType \in {"bet", "bet_increase"} }

Amount(a, u) == scoreToAmount(zset[a][u])

FirstSecond(a, u) == timestampSeconds(firstBid[a][u].t)

\* C6 as stated: higher amount first and, among equal amounts, the bidder
\* admitted first ranks strictly higher.
C6_EarlierAdmittedFirst ==
    \A a \in AuctionIds : \A u, v \in Members(a) :
       /\ Amount(a, u) > Amount(a, v) => RankOf(a, u) < RankOf(a, v)
       /\ (Amount(a, u) = Amount(a, v) /\ firstBid[a][u].n < firstBid[a][v].n)
             => RankOf(a, u) < RankOf(a, v)

\* C6, amended: higher amount first; among equal amounts the bidder whose
\* first bid fell in an earlier second ranks strictly higher (within one
\* second the order is that of the member ids, not of admission); a raise
\* keeps the second of the first bid in the score.
C6_EarlierSecondFirst ==
    \A a \in AuctionIds : \A u, v \in Members(a) :
       /\ u # v => RankOf(a, u) # RankOf(a, v)
       /\ Amount(a, u) > Amount(a, v) => RankOf(a, u) < RankOf(a, v)
       /\ (Amount(a, u) = Amount(a, v) /\ FirstSecond(a, u) < FirstSecond(a, v))
             => RankOf(a, u) < RankOf(a, v)
       /\ zset[a][u] % MULTIPLIER = MAX_TS - FirstSecond(a, u)

\* Two bidders hold the same amount, their first bids fell in different
\* seconds, and the one who came first raised after the clock moved on.
C6_Witness ==
    /\ Members("a1") = Users
    /\ Amount("a1", "u1") = 2 /\ Amount("a1", "u2") = 2
    /\ FirstSecond("a1", "u1") < FirstSecond("a1", "u2")
    /\ FirstSecond("a1", "u1") < timestampSeconds(now)
    /\ \E n \in DOMAIN txs : /\ txs[n].odId = BetId("k3")
                             /\ txs[n].odType = "bet_increase"
                             /\ \E m \in DOMAIN txs : m < n /\ txs[m].odUserId = "u2"

\* The rounds of auction a, 0-based.
RoundsOf(a) == { r \in RoundIdx : r < Len(auctions[a].rounds) }

WinTxs(a, r) ==
    { n \in DOMAIN txs : /\ txs[n].odType = "win"
                         /\ txs[n].odAuctionId = a
                         /\ txs[n].odRoundIndex = r }

\* C7 as stated: running the end-round job of a round again, after an
\* interruption at any step, adds nothing to what one run does: at most one
\* WIN record per prize slot and at most the round's prizes in gift
\* movement.
C7_RerunAddsNothing ==
    \A a \in AuctionIds : \A r \in RoundsOf(a) :
       /\ Cardinality(WinTxs(a, r)) <= Len(RoundOf(a, r))
       /\ moved[a][r].won + moved[a][r].back <= SumSeq(RoundOf(a, r))

\* C8 as stated: no two WIN transactions share (auctionId, roundIndex, place).
C8_UniqueWinPlace ==
    \A m, n \in DOMAIN txs :
       (/\ m < n
        /\ txs[m].odType = "win" /\ txs[n].odType = "win"
        /\ txs[m].odAuctionId = txs[n].odAuctionId
        /\ txs[m].odRoundIndex = txs[n].odRoundIndex)
          => txs[m].odId.p # txs[n].odId.p

\* Round r of auction a is settled: the auction moved past it.
Settled(a, r) ==
    \/ auctions[a].state = "finished"
    \/ auctions[a].state = "active" /\ auctions[a].currentRound > r

\* C9 as stated: for every settled round the prizes credited to winners plus
\* the prizes refunded to the author equal the sum of the round's prizes.
C9_RoundPrizes ==
    \A a \in AuctionIds : \A r \in RoundsOf(a) :
       Settled(a, r) =>
          moved[a][r].won + moved[a][r].back = SumSeq(RoundOf(a, r))

Outstanding(a) ==
    auctions[a].giftCount
      - SumOver(RoundsOf(a), [r \in RoundIdx |-> moved[a][r].won + moved[a][r].back])

UnsettledPrizes(a) ==
    SumOver({ r \in RoundsOf(a) : ~Settled(a, r) },
            [r \in RoundIdx |-> SumSeq(RoundOf(a, r))])

\* C10 as stated: the gifts outstanding for an auction (debited at creation,
\* minus prizes paid and refunds) equal the prizes of its rounds not yet
\* settled, whenever no settlement is in progress; once FINISHED nothing is
\* outstanding.
C10_OutstandingGifts ==
    \A a \in AuctionIds :
       (/\ auctions[a].state # "none"
        /\ auctions[a].currentRound # SETTLING
        /\ \A w \in Workers : worker[w].pc = "idle")
          => Outstanding(a) = UnsettledPrizes(a)

\* C39: a script step that answers OK or SAME leaves the bid-map entry of
\* the requesting user for the requested auction at the amount it reports,
\* and that amount is the one requested.
C39_SuccessMeansPlaced ==
    [][\A i \in ReqSlots :
         (ScriptStep(i) /\ req'[i].res.status \in {"OK", "SAME"}) =>
            /\ req'[i].res.amount = req[i].stars
            /\ userBets'[req[i].user][req[i].auctionId] = req'[i].res.amount]_vars

\* Indices of the ledger records keyed by idempotency key k.
KeyRecords(k) == { n \in DOMAIN txs : txs[n].odId = BetId(k) }

\* Every answered OK or SAME admission has a record under its key, and no
\* key has two records.
AnsweredRecorded ==
    \A k \in Keys :
       /\ Cardinality(KeyRecords(k)) <= 1
       /\ (\E o \in outcomes[k] : o.status \in {"OK", "SAME"}) =>
             KeyRecords(k) # {}

PayStep(w) ==
    /\ worker[w].pc = "winners"
    /\ worker[w].cur # 0
    /\ worker'[w].pc = "winners"
    /\ worker'[w].cur = 0

\* C38: when settlement debits a winner and deletes the bid, the amount read
\* with the top bets, which is the amount debited and written to the winner
\* record, is the winner's bid-map entry at that moment.
C38_DebitIsCachedBid ==
    [][\A w \in Workers :
         PayStep(w) =>
            LET j == worker[w]
                bet == j.topBets[j.cur]
            IN /\ userBets[bet.userId][j.auctionId] = bet.amount
               /\ balance[bet.userId] - balance'[bet.userId] = bet.amount]_vars

\* No bid request is between its script and its ledger write or response,
\* and no job is running.
Quiescent ==
    /\ \A i \in ReqSlots : req[i].pc = "idle"
    /\ \A w \in Workers : worker[w].pc = "idle"

\* Ledger and fast cache agree on the bid of u in a.
Coherent(u, a) == LastActiveAmount(u, a) = userBets[u][a]

\* C12: outside the in-flight window of an admission, a user has an ACTIVE
\* BET/BET_INCREASE record for an auction exactly when the bid map holds an
\* entry for it, and the latest ACTIVE amount is the cached amount.  Stated
\* for the states in which every admission that changed the cache also
\* wrote its ledger record, so that an admission cut short by a server stop
\* counts as still in flight.
C12_TwoStoreCoherence ==
    (Quiescent /\ \A k \in Keys : applied[k] > 0 => HasTx(BetId(k)))
       => \A u \in Users, a \in AuctionIds : Coherent(u, a)

\* C13: every member of an auction's ranked set has an entry for that
\* auction in the member's bid map, and the amount encoded in the score,
\* floor(score / MULTIPLIER), is the amount of the entry.
C13_MemberHasEntry ==
    \A a \in AuctionIds, u \in Users :
       zset[a][u] # NoScore =>
          /\ userBets[u][a] > 0
          /\ userBets[u][a] = scoreToAmount(zset[a][u])

\* A winner's bid was deleted by settlement while another bidder is still a
\* member of the ranked set.
C13_Witness ==
    \E a \in AuctionIds, u \in Users, r \in RoundIdx :
       /\ zset[a][u] # NoScore
       /\ moved[a][r].won > 0

\* The ledger step of a retried request whose stored outcome is replayed
\* and whose record is still missing.
RecoveryStep(i, k) ==
    /\ req[i].pc = "ledger"
    /\ req[i].key = k
    /\ req[i].res.idempotent
    /\ Success(req[i].res)
    /\ KeyRecords(k) = {}
    /\ KeyRecords(k)' # {}

\* C14: after a server stop between the script and the ledger write, the
\* retry with the same key replays the stored outcome, writes the record,
\* and then the locked amount the ledger gives for that user and auction is
\* the cached bid.
C14_RecoveryRestoresCoherence ==
    [][\A i \in ReqSlots, k \in Keys, u \in Users, a \in AuctionIds :
         (RecoveryStep(i, k) /\ req[i].user = u /\ req[i].auctionId = a)
            => Coherent(u, a)']_vars

\* The auction is FINISHED and the job that settled its last round is done.
SettlementDone(a) ==
    /\ auctions[a].state = "finished"
    /\ \A w \in Workers : worker[w].auctionId # a
    /\ \A j \in queue : j.auctionId # a

\* C15: once an auction is FINISHED and its settlement has completed, no
\* user has an ACTIVE BET/BET_INCREASE record for it.
C15_NoActiveAfterFinish ==
    \A a \in AuctionIds :
       SettlementDone(a) => \A u \in Users : ActiveBetIdx(u, a) = {}

\* The place-0 winner records of round r of auction a.
PlaceZero(a, r) ==
    { n \in DOMAIN auctions[a].winners :
         /\ auctions[a].winners[n].roundIndex = r
         /\ auctions[a].winners[n].place = 0 }

\* The ledger records of the refund of round r of auction a to its author.
RefundTxs(a, r) ==
    { n \in DOMAIN txs : txs[n].odId = WinId(a, auctions[a].authorId, r, 0) }

\* Round r of auction a was settled with no bids: its refund was recorded
\* and no bid was ever admitted into the fast cache.
NoBidRound(a, r) ==
    /\ Settled(a, r)
    /\ RefundTxs(a, r) # {}
    /\ \A k \in Keys : applied[k] = 0

RecordStep(w) ==
    /\ worker[w].pc = "winners"
    /\ worker[w].todo = {}
    /\ worker'[w].pc = "final"

\* The step in which worker w reads the top bets of the round.
TopStep(w) == worker[w].pc = "top" /\ worker'[w].pc \in {"nobets", "winners"}

RejectStatuses == {"AUCTION_NOT_FOUND", "AUCTION_NOT_ACTIVE", "CANNOT_BET_OWN_AUCTION"}

\* The step in which the route turns a request with key k down before the
\* lock.
RejectStep(k) ==
    /\ req' = req
    /\ reqCount'[k] = reqCount[k] + 1

\* C18: a request turned down with AUCTION_NOT_FOUND, AUCTION_NOT_ACTIVE or
\* CANNOT_BET_OWN_AUCTION changes neither the fast cache, the ledger nor
\* the idempotency slot; a script that answers CANNOT_DECREASE or
\* INSUFFICIENT_BALANCE changes neither the cache nor the slot, which stays
\* empty, and the rest of that request changes neither ledger nor balance.
C18_RejectionsChangeNothing ==
    [][/\ \A k \in Keys :
            RejectStep(k) =>
               /\ \E o \in outcomes'[k] : o.status \in RejectStatuses
               /\ UNCHANGED << userBets, zset, txs, idem, balance >>
       /\ \A i \in ReqSlots, k \in Keys :
            (/\ ScriptStep(i)
             /\ req[i].key = k
             /\ req'[i].res.status \in {"CANNOT_DECREASE", "INSUFFICIENT_BALANCE"}) =>
               /\ UNCHANGED << userBets, zset, txs, idem, balance >>
               /\ idem'[k] = NoSlot
               /\ ~Success(req'[i].res)
       /\ \A i \in ReqSlots :
            (/\ req[i].pc = "ledger"
             /\ req[i].res.status \in {"CANNOT_DECREASE", "INSUFFICIENT_BALANCE"}
             /\ req'[i].pc = "idle") =>
               UNCHANGED << userBets, zset, txs, idem, balance >>]_vars

\* The author was turned down, and a key that was answered
\* INSUFFICIENT_BALANCE was evaluated afresh and answered OK.
C18_Witness ==
    /\ \E o \in outcomes[OwnKey] : o.status = "CANNOT_BET_OWN_AUCTION"
    /\ \E o \in outcomes[SharedKey] : o.status = "INSUFFICIENT_BALANCE"
    /\ \E o \in outcomes[SharedKey] : o.status = "OK"

\* What one step may do to the state and currentRound of auction a.
LifecycleStep(a) ==
    LET s  == auctions[a].state
        c  == auctions[a].currentRound
        s2 == auctions'[a].state
        c2 == auctions'[a].currentRound
    IN \/ s2 = s /\ c2 = c
       \/ s = "none" /\ s2 = "pending" /\ c2 = -1
       \/ /\ s = "pending"
          /\ s2 = "active" /\ c2 = 0
          /\ EndJob(a, 0) \in queue'
       \/ /\ s = "active" /\ c >= 0
          /\ s2 = "active" /\ c2 = SETTLING
          /\ \E w \in Workers : /\ worker'[w].auctionId = a
                                /\ worker'[w].roundIndex = c
       \/ /\ s = "active" /\ c = SETTLING
          /\ \E w \in Workers :
                /\ worker[w].auctionId = a
                /\ worker[w].pc = "final"
                /\ LET r == worker[w].roundIndex
                   IN IF r = Len(auctions[a].rounds) - 1
                      THEN s2 = "finished" /\ c2 = r
                      ELSE /\ s2 = "active" /\ c2 = r + 1
                           /\ EndJob(a, r + 1) \in queue'

C24_NoAdmissionWhileSettling ==
    [][\A i \in ReqSlots, a \in AuctionIds :
         (/\ ScriptStep(i)
          /\ req[i].auctionId = a
          /\ auctions[a].state = "active"
          /\ auctions[a].currentRound = SETTLING) =>
            /\ userBets' = userBets
            /\ zset' = zset]_vars

\* C25: a settlement run in which a step failed does not advance the
\* auction: its final update leaves state, currentRound and winners alone.
C25_FailureDoesNotAdvance ==
    [][\A w \in Workers :
         (worker[w].pc = "final" /\ worker[w].failed) =>
            auctions' = auctions]_vars

\* The WIN records of the bidders (place >= 1) of round r of auction a.
BidderWins(a, r) == { n \in WinTxs(a, r) : txs[n].odId.p >= 1 }

\* The WIN records of bidder u, over all auctions and rounds.
WinsOf(u) ==
    { n \in DOMAIN txs : /\ txs[n].odType = "win"
                         /\ txs[n].odUserId = u
                         /\ txs[n].odId.p >= 1 }

\* No job is at work or waiting.
JobsDone == queue = {} /\ \A w \in Workers : worker[w].pc = "idle"

\* C26: once the settlement attempts are over, every winner record of a
\* bidder stands for one credit of its prize and one debit of its bid: per
\* round the prizes credited to bidders are those of the round's winner
\* records, per bidder the stars debited are the bids of that bidder's
\* winner records, and no winner is left with an ACTIVE record.
C26_WinnerSettledOnce ==
    JobsDone =>
       /\ \A a \in AuctionIds : \A r \in RoundsOf(a) :
             moved[a][r].won =
                SumOver(BidderWins(a, r), [n \in DOMAIN txs |-> txs[n].odDiff])
       /\ \A u \in Users :
             /\ InitBalance - balance[u] =
                   SumOver(WinsOf(u), [n \in DOMAIN txs |-> txs[n].odAmount])
             /\ \A n \in WinsOf(u), q \in DOMAIN txs :
                   (/\ txs[q].odUserId = u
                    /\ txs[q].odAuctionId = txs[n].odAuctionId
                    /\ txs[q].odRoundIndex = txs[n].odRoundIndex)
                      => ~IsActiveBet(txs[q])

\* A start-round job for auction a is waiting in the queue or being
\* processed.
StartPending(a) ==
    \/ StartJob(a) \in queue
    \/ \E w \in Workers : worker[w].name = "start-round" /\ worker[w].auctionId = a

\* C23: however often the start-round job fires, one fire does the whole
\* start: once no start-round job is left, an auction that is ACTIVE in round
\* 0 has its end-round job for round 0 enqueued.
C23_OneFireStartsRound ==
    \A a \in AuctionIds :
       (/\ auctions[a].state = "active"
        /\ auctions[a].currentRound = 0
        /\ ~StartPending(a)) => EndJob(a, 0) \in queue

\* C27: the winners list of an auction never holds two records with the same
\* (roundIndex, place).
C27_NoDuplicateWinners ==
    \A a \in AuctionIds :
       \A i, j \in DOMAIN auctions[a].winners :
          (/\ auctions[a].winners[i].roundIndex = auctions[a].winners[j].roundIndex
           /\ auctions[a].winners[i].place = auctions[a].winners[j].place) => i = j

\* C37: under fair execution of the jobs every created auction eventually
\* reaches FINISHED.
C37_EventuallyFinished ==
    \A a \in AuctionIds :
       (auctions[a].state \in {"pending", "active"}) ~> (auctions[a].state = "finished")

\* C19: per auction and round at most MAX_ANTI_SNIPE_EXTENSIONS calls of
\* extendRound return true.
C19_ExtensionsBounded ==
    \A a \in AuctionIds, r \in RoundIdx :
       Len(extensions[a][r]) <= MAX_ANTI_SNIPE_EXTENSIONS

\* Request i takes a step of extendRound that changes the end-round job,
\* roundEndTime or the extension counter.
ExtendStep(i) ==
    /\ req[i].pc \in {"remove", "add", "update"}
    /\ req'[i] # req[i]
    /\ << queue, snipeVars >>' # << queue, snipeVars >>

\* C31: only a request whose result is a fresh OK changes the end-round
\* job, roundEndTime or the extension counter.
C31_OnlyOkExtends ==
    [][\A i \in ReqSlots :
          ExtendStep(i) => req[i].res.status = "OK" /\ ~req[i].res.idempotent]_vars

\* C30: no two requests that saw the same roundEndTime both extend the
\* round.
C30_OneExtensionPerSnapshot ==
    \A a \in AuctionIds, r \in RoundIdx :
       \A m, n \in DOMAIN extensions[a][r] :
          extensions[a][r][m] = extensions[a][r][n] => m = n

\* A call of extendRound for round r of auction a is between job.remove()
\* and roundQueue.add.
Requeueing(a, r) ==
    \E i \in ReqSlots : /\ req[i].pc = "add"
                        /\ req[i].auctionId = a
                        /\ req[i].round = r

\* C36: while a round is ACTIVE and not being settled, its end-round job is
\* pending whenever no extendRound call is in the middle of replacing it.
C36_EndJobPending ==
    \A a \in AuctionIds, r \in RoundIdx :
       (/\ auctions[a].state = "active"
        /\ auctions[a].currentRound = r
        /\ EndJob(a, r) \notin queue) => Requeueing(a, r)

\* C20: a call of extendRound puts the end-round job back only for an
\* admitted bid that was within the threshold, and the job then fires at
\* least ANTI_SNIPE_EXTEND_SECONDS after the fire time the call found.
C20_ExtendedByAdmittedBid ==
    [][\A i \in ReqSlots :
          (req[i].pc = "add" /\ req'[i].pc = "update") =>
             /\ req[i].res.status = "OK" /\ ~req[i].res.idempotent
             /\ JobExists(req[i].auctionId, req[i].round)'
             /\ jobAt'[req[i].auctionId][req[i].round] >= req[i].newEndTime]_vars

\* C21: a request that has made MAX_RETRIES attempts without getting the
\* lock takes no further attempt; its only step answers TOO_MANY_REQUESTS
\* and changes neither the bid map, the ranked set, the idempotency slots,
\* the ledger nor the lock.
C21_LockFailureChangesNothing ==
    [][\A i \in ReqSlots :
          (/\ req[i].pc = "lock"
           /\ req[i].attempt = MAX_RETRIES
           /\ req'[i] # req[i]) =>
             /\ req'[i] = NoReq
             /\ outcomes'[req[i].key] =
                   outcomes[req[i].key] \cup {Rejected("TOO_MANY_REQUESTS")}
             /\ UNCHANGED << userBets, zset, idem, txs, lock, balance >>]_vars

C21_Witness ==
    \E k \in Keys : /\ Rejected("TOO_MANY_REQUESTS") \in outcomes[k]
                    /\ applied[k] = 0

\* Request i is inside the body of withUserLock.
InCriticalSection(i) == req[i].pc \in {"script", "ledger"}

\* C28: two requests of the same user are never inside the critical section
\* at the same time.
C28_OneCriticalSection ==
    \A i, j \in ReqSlots :
       (/\ i # j
        /\ InCriticalSection(i)
        /\ InCriticalSection(j)) => req[i].user # req[j].user

\* C29: a request never deletes or changes a lock that holds the lockId of
\* another holder, and when it leaves withUserLock, by return or by throw,
\* the lock does not hold its own lockId.
C29_ReleaseOnlyOwnLock ==
    [][\A i \in ReqSlots :
          req'[i] # req[i] =>
             /\ \A u \in Users :
                   lock[u] \notin {None, generateLockId(i)} => lock'[u] = lock[u]
             /\ (InCriticalSection(i) /\ ~InCriticalSection(i)') =>
                   lock'[req[i].user] # generateLockId(i)]_vars

\* A release found the lock of another holder under the key and left it.
C29_Witness ==
    /\ \E rec \in staleReleases : rec.found \notin {None, rec.by}
    /\ \E u \in Users : lock[u] # None

\* C34: subscriptions are counted per auction.  The first subscribeToAuction
\* creates the set and subscribes to the channel, and starts the producer
\* when the subscription is made; a further subscriber only joins the set;
\* an unsubscribe that leaves other subscribers keeps the set, the channel
\* and the producer; the last unsubscribe removes the set, unsubscribes from
\* the channel and stops the producer.
C34_ReferenceCounted ==
    [][\A s \in Subscribers :
          /\ \A a \in AuctionIds :
                SubscribeBegin(s, a) =>
                   IF ~auctionSubscribers[a].exists
                   THEN /\ auctionSubscribers'[a].exists
                        /\ a \in channels'
                   ELSE /\ auctionSubscribers'[a].members =
                              auctionSubscribers[a].members \cup {s}
                        /\ channels' = channels
                        /\ activeAuctionUpdaters' = activeAuctionUpdaters
          /\ SubscribeResume(s) => sub[s].auctionId \in activeAuctionUpdaters'
          /\ Unsubscribe(s) =>
                LET a == sub[s].auctionId
                IN IF auctionSubscribers[a].members \ {s} # {}
                   THEN /\ auctionSubscribers'[a].exists
                        /\ auctionSubscribers'[a].members =
                              auctionSubscribers[a].members \ {s}
                        /\ channels' = channels
                        /\ activeAuctionUpdaters' = activeAuctionUpdaters
                   ELSE /\ ~auctionSubscribers'[a].exists
                        /\ a \notin channels'
                        /\ a \notin activeAuctionUpdaters']_vars

\* Both connections are subscribed to a1, whose channel is subscribed and
\* whose producer runs.
C34_Witness ==
    /\ \A s \in Subscribers : sub[s] = [pc |-> "subscribed", auctionId |-> "a1"]
    /\ auctionSubscribers["a1"].members = Subscribers
    /\ "a1" \in channels
    /\ "a1" \in activeAuctionUpdaters

\* C40: when the channel subscription of a subscribeToAuction call is made,
\* whatever other subscribers did while it was pending, the call registers
\* its callback in an existing set, and the producer and the channel
\* subscription exist.
C40_PendingSubscribeSafe ==
    [][\A s \in Subscribers :
          SubscribeResume(s) =>
             LET a == sub[s].auctionId
             IN /\ auctionSubscribers'[a].exists
                /\ s \in auctionSubscribers'[a].members
                /\ a \in channels'
                /\ a \in activeAuctionUpdaters']_vars

\* No connection is subscribed or subscribing to auction a.
NoSubscribers(a) ==
    /\ auctionSubscribers[a].members = {}
    /\ \A s \in Subscribers : sub[s].auctionId # a

\* C35: a producer that runs while its auction has no subscriber eventually
\* stops, unless a subscriber arrives.
C35_ProducerStops ==
    \A a \in AuctionIds :
       (NoSubscribers(a) /\ a \in activeAuctionUpdaters)
          ~> (a \notin activeAuctionUpdaters \/ ~NoSubscribers(a))

\* C11: under one idempotency key the author's gifts are debited at most
\* once and at most one auction exists.
C11_OncePerKey ==
    \A in \in CreateInputs :
       /\ debited[in.key] <= in.giftCount
       /\ Cardinality(made[in.key]) <= 1

\* The gifts debited by the createAuction calls in flight, net of refunds.
RECURSIVE DebitOf(_)
DebitOf(cs) ==
    IF cs = {} THEN 0
    ELSE LET c == CHOOSE x \in cs : TRUE
         IN call[c].debit + DebitOf(cs \ {c})

=============================================================================
